---- MODULE Spec2Model ----
(***************************************************************************)
(* Model of the external-LMS integration layer of lms_backend:             *)
(* lms_api/services/retry_service.py (retry decorator, circuit breaker,    *)
(* token manager), the decorated sync operations of                        *)
(* lms_api/services/lms_integration.py with the local course rows they and *)
(* the create-course route of lms_api/views/courses.py write, the Moodle   *)
(* REST client and parameter encoder of lms_api/services/moodle_service.py,*)
(* the background scheduler of lms_api/services/sync_service.py, the       *)
(* circuit breaker under calls of several threads, sync runs that overlap  *)
(* and the content upload of lms_api/views/content.py.                     *)
(***************************************************************************)
EXTENDS Integers, Sequences, FiniteSets, TLC

(***************************************************************************)
(* Bounds of the model.                                                    *)
(***************************************************************************)
MaxThreshold == 2
MaxTimeout == 2
MaxElapse == 3
MaxDays == 1
MaxAttempts == 3
MaxBackoff == 2
MaxDelay == 3
MaxSyncTicks == 2
MaxEnrolments == 2
MaxCourses == 2
MaxCourseId == 2
MaxRows == 3
MaxThreads == 2
MaxStreak == 3
MaxContents == 2

(***************************************************************************)
(* Python values.                                                          *)
(***************************************************************************)
\* None, where the code holds either None or a time (an integer here).
None == -1

\* Python None in a slot that otherwise holds a string.
NoneStr == "None"

\* A key that a dict does not hold.
Absent == "<absent>"

\* timedelta.seconds is the seconds field of the normalised (days, seconds,
\* microseconds) triple: 0 <= seconds < 86400.
DaySeconds == 86400

\* The exception classes the modelled code raises, catches or is configured
\* with, and each class's base class.
ExcBase ==
  [ BaseException           |-> "BaseException",
    KeyboardInterrupt       |-> "BaseException",
    Exception               |-> "BaseException",
    TypeError               |-> "Exception",
    ValueError              |-> "Exception",
    KeyError                |-> "Exception",
    UnboundLocalError       |-> "Exception",
    RequestException        |-> "Exception",
    Timeout                 |-> "RequestException",
    RequestsConnectionError |-> "RequestException",
    RequestsHTTPError       |-> "RequestException",
    HTTPError               |-> "Exception",
    TokenExpiredError       |-> "HTTPError",
    RateLimitError          |-> "HTTPError",
    ServiceUnavailableError |-> "HTTPError",
    MoodleError             |-> "Exception",
    MoodleAuthError         |-> "MoodleError",
    MoodleValidationError   |-> "MoodleError",
    MoodleNotFoundError     |-> "MoodleError" ]

RECURSIVE IsSubclass(_, _)
\* issubclass(cls, base), which is how an except clause matches.
IsSubclass(cls, base) ==
  IF cls = base THEN TRUE
  ELSE IF cls = "BaseException" THEN FALSE
  ELSE IsSubclass(ExcBase[cls], base)

\* except (a, b, ...) as e: the clause matches when the exception is an
\* instance of one of the classes.
Matches(cls, classes) == \E c \in classes : IsSubclass(cls, c)

\* An exception object: its class, its message, and the invocation of the
\* wrapped function that raised it (0 when a wrapper made it).
Exc(type, msg, inv) == [raised |-> TRUE, type |-> type, msg |-> msg, inv |-> inv]

\* A returned value, told apart by the invocation that returned it.
Ret(inv) == [raised |-> FALSE, type |-> "value", msg |-> "", inv |-> inv]

NoOutcome == [raised |-> FALSE, type |-> "none", msg |-> "", inv |-> 0]

(***************************************************************************)
(* State.                                                                  *)
(***************************************************************************)
VARIABLES
  now,               \* datetime.now(), in seconds
  func_name,         \* func.__name__ of each decorated function
  failure_threshold, \* circuit_breaker(failure_threshold=...) of each function
  recovery_timeout,  \* circuit_breaker(recovery_timeout=...) of each function
  expected_exception,\* circuit_breaker(expected_exception=...) of each function
  circuit_breakers,  \* RetryService.circuit_breakers: func_name -> circuit_state
  cb_last,           \* the last call of a circuit wrapper, as its caller saw it
  cb_streak,         \* per name: failures the wrapped calls raised since a success
  r_cfg,             \* with_retry(max_attempts, backoff_factor, max_delay, exceptions, exponential)
  r_script,          \* what the function wrapped by with_retry does at each invocation
  r_pc,              \* whether the retry wrapper has been called
  r_result,          \* what the call of the retry wrapper did
  s_platform,        \* the platform whose sync_<platform>_courses is called
  s_configured,      \* whether that platform's URL and credentials are set
  s_last,            \* the last call of sync_<platform>_courses, as its caller saw it
  s_err,             \* the errors callers got: from an open circuit, after an HTTP 5xx
  s_remote,          \* the course list the remote platform holds
  s_fresh,           \* whether that list is as the last call found it
  db,                \* the committed rows of the local courses table
  runs,              \* the runs of sync_<platform>_courses in progress, by the thread that makes them
  m_req,             \* the operation of the Moodle client that is called
  m_script,          \* what each POST of that operation does
  m_pc,              \* whether the operation has been called
  m_result,          \* what the operation did
  m_encoded,         \* what MoodleParamEncoder.encode_params returned
  tokens,            \* TokenManager.tokens: service -> token
  token_expiry,      \* TokenManager.token_expiry: service -> expiry time
  tk_asked,          \* per service: the expiry time its latest store_token asked for
  tk_last,           \* the last call of the token manager, as its caller saw it
  sync_interval,     \* SyncService.sync_interval
  is_running,        \* SyncService.is_running
  stop_event,        \* SyncService.stop_event: whether the Event is set
  sync_thread,       \* SyncService.sync_thread: the thread it refers to, 0 for None
  last_sync,         \* SyncService.last_sync: platform -> whether a time is recorded
  sc_platforms,      \* the platforms whose credentials are configured, in the order of the checks
  threads,                \* the threads created by start(): where each is in _sync_loop
  c_pc,              \* where the thread that calls the public operations is
  sc_last,           \* the last public operation of the SyncService, as its caller saw it
  cc_obj,            \* the circuit_state dicts that exist, by the thread that created them
  cc_key,            \* the dict stored in circuit_breakers under the function name, 0 for none
  callers,           \* per calling thread: where it is in wrapper and the dict it holds
  cc_streak,         \* the calls that raised to the wrapper since the last one that returned
  contents,          \* the committed rows of the course_content table
  ct_last            \* the last content upload request, as its caller saw it

cbVars == << now, func_name, failure_threshold, recovery_timeout,
             expected_exception, circuit_breakers, cb_last, cb_streak >>

retryVars == << r_cfg, r_script, r_pc, r_result >>

syncVars == << s_platform, s_configured, s_last, s_err, s_remote, s_fresh, db,
              runs >>

moodleVars == << m_req, m_script, m_pc, m_result, m_encoded >>

tokenVars == << tokens, token_expiry, tk_asked, tk_last >>

schedVars == << sync_interval, is_running, stop_event, sync_thread, last_sync,
               sc_platforms, threads, c_pc, sc_last >>

ccVars == << cc_obj, cc_key, callers, cc_streak >>

contentVars == << contents, ct_last >>

vars == << cbVars, retryVars, syncVars, moodleVars, tokenVars, schedVars,
          ccVars, contentVars >>

\* The decorated functions (distinct function objects) and their possible names.
Funcs == {"f1", "f2"}
Names == {"sync_courses", "fetch_courses"}
NoFunc == "NoFunc"

\* The exceptions a wrapped function raises in the model.
FuncRaises == {"ServiceUnavailableError", "ValueError", "KeyboardInterrupt"}
\* The default of circuit_breakers.get(func_name, {...}).
NewCircuit == [failures |-> 0, last_failure_time |-> None, state |-> "closed"]

NoCall == [kind |-> "none", func |-> NoFunc, pre |-> NewCircuit, at |-> 0,
           trial |-> FALSE, invoked |-> FALSE]

\* self.circuit_breakers.get(name, default)
Circuit(cbmap, name) ==
  IF name \in DOMAIN cbmap THEN cbmap[name] ELSE NewCircuit

\* self.circuit_breakers[name] = rec
Put(cbmap, name, rec) ==
  [n \in DOMAIN cbmap \cup {name} |-> IF n = name THEN rec ELSE cbmap[n]]

(***************************************************************************)
(* The circuit breaker's wrapper.                                          *)
(***************************************************************************)

\* circuit_state after the recovery check.
AfterRecoveryCheck(rec, current_time, timeout) ==
  LET
      \* The recovery check: whether an open circuit moves to half_open.
      RecoveryDue ==
        LET
            \* (a - b).seconds
            TimedeltaSeconds(a, b) == (a - b) % DaySeconds
        IN
        /\ rec.state = "open"
        /\ rec.last_failure_time # None
        /\ TimedeltaSeconds(current_time, rec.last_failure_time) >= timeout
  IN
  IF RecoveryDue
  THEN [rec EXCEPT !.state = "half_open"]
  ELSE rec

OnRejectTouch(rec, current_time) ==
  [rec EXCEPT !.last_failure_time = current_time]

\* The fail-fast branch writes nothing to circuit_state.
OnReject(rec, current_time) == rec

\* The error of the fail-fast branch.
CircuitOpenError == Exc("Exception", "Circuit breaker is open", 0)

\* circuit_state.update({...}) on success.
OnSuccess(rec) ==
  [rec EXCEPT !.failures = 0, !.last_failure_time = None, !.state = "closed"]

ThresholdExceeded(failures, threshold) == failures > threshold

\* Whether the failure count opens the circuit.
ThresholdReached(failures, threshold) == failures >= threshold

OnFailureKeepClock(rec, current_time, threshold) ==
  LET counted == [rec EXCEPT !.failures = rec.failures + 1,
                             !.last_failure_time =
                               IF @ = None THEN current_time ELSE @]
  IN IF ThresholdReached(counted.failures, threshold)
     THEN [counted EXCEPT !.state = "open"]
     ELSE counted

\* The except expected_exception branch.
OnFailure(rec, current_time, threshold) ==
  LET counted == [rec EXCEPT !.failures = rec.failures + 1,
                             !.last_failure_time = current_time]
  IN IF ThresholdReached(counted.failures, threshold)
     THEN [counted EXCEPT !.state = "open"]
     ELSE counted

\* One call of wrapper, when func(*args) would end in outcome fo: the new
\* circuit_breakers, what the caller gets, and what the call did.
\* A circuit_state that came from the map is the stored dict itself, so what
\* the recovery check writes stays in the map also when nothing is stored.
CBWrapper(cbmap, name, current_time, threshold, timeout, expected, fo) ==
  LET present == name \in DOMAIN cbmap
      got == Circuit(cbmap, name)
      rec == AfterRecoveryCheck(got, current_time, timeout)
      trial == rec.state = "half_open"
  IN IF rec.state = "open"
     THEN [map |-> Put(cbmap, name, OnReject(rec, current_time)),
           out |-> CircuitOpenError, kind |-> "rejected", trial |-> FALSE,
           invoked |-> FALSE]
     ELSE IF ~fo.raised
     THEN [map |-> Put(cbmap, name, OnSuccess(rec)),
           out |-> fo, kind |-> "returned", trial |-> trial,
           invoked |-> TRUE]
     ELSE IF IsSubclass(fo.type, expected)
     THEN [map |-> Put(cbmap, name, OnFailure(rec, current_time, threshold)),
           out |-> fo, kind |-> "raised", trial |-> trial,
           invoked |-> TRUE]
     ELSE [map |-> IF present THEN Put(cbmap, name, rec) ELSE cbmap,
           out |-> fo, kind |-> "escaped", trial |-> trial,
           invoked |-> TRUE]

\* The failures in a row that the calls under a name have raised.
StreakAfter(streak, kind) ==
  CASE kind = "returned" -> 0
    [] kind = "raised" -> streak + 1
    [] OTHER -> streak

\* A caller calls the decorated function f, whose body would end in fo.
CBCall(f, fo) ==
  LET name == func_name[f]
      res == CBWrapper(circuit_breakers, name, now, failure_threshold[f],
                       recovery_timeout[f], expected_exception[f], fo)
  IN /\ circuit_breakers' = res.map
     /\ cb_last' = [kind |-> res.kind, func |-> f,
                    pre |-> Circuit(circuit_breakers, name), at |-> now,
                    trial |-> res.trial, invoked |-> res.invoked]
     /\ cb_streak' = [cb_streak EXCEPT ![name] = StreakAfter(@, res.kind)]
     /\ UNCHANGED << ccVars, contentVars, now, func_name, failure_threshold, recovery_timeout,
                     expected_exception, retryVars, syncVars, moodleVars,
                  tokenVars, schedVars >>

\* Time passes: the clock moves on by d seconds.
Tick(d) ==
  /\ (now + d) % DaySeconds <= MaxElapse
  /\ (now + d) \div DaySeconds <= MaxDays
  /\ now' = now + d
  /\ UNCHANGED << ccVars, contentVars, func_name, failure_threshold, recovery_timeout,
                  expected_exception, circuit_breakers, cb_last, cb_streak,
                  retryVars, syncVars, moodleVars,
                  tokenVars, schedVars >>

(***************************************************************************)
(* The retry decorator's wrapper.                                          *)
(***************************************************************************)
Min(a, b) == IF a <= b THEN a ELSE b

RECURSIVE Pow2(_)
\* 2 ** n
Pow2(n) == IF n = 0 THEN 1 ELSE 2 * Pow2(n - 1)

\* The function a retry wrapper wraps: a plain function ("func") or a circuit
\* breaker's wrapper around one ("circuit"). script[n] is what the innermost
\* function does at its n-th invocation, calls the invocations so far, kinds
\* what the circuit wrapper did with each call it got.
PlainFunc(script, time) ==
  [target |-> "func", script |-> script, calls |-> 0, now |-> time,
   kinds |-> << >>, map |-> << >>, name |-> "", threshold |-> 0, timeout |-> 0,
   expected |-> "Exception"]

\* The n-th invocation's outcome: the exception object or the value of that
\* invocation.
Stamp(o, n) == [o EXCEPT !.inv = n]

RetryCatchesAll(type, exceptions) == TRUE

\* except exceptions as e
RetryCatches(type, exceptions) == Matches(type, exceptions)

LoopContinuesShort(attempt, max_attempts) == attempt < max_attempts - 1

\* for attempt in range(max_attempts)
LoopContinues(attempt, max_attempts) == attempt < max_attempts

KeepFirst(last_exception, e) ==
  IF last_exception = NoOutcome THEN e ELSE last_exception

\* last_exception = e
KeepLast(last_exception, e) == e

DelayOneAhead(cfg, attempt) ==
  IF cfg.exponential
  THEN Min(cfg.backoff_factor * Pow2(attempt + 1), cfg.max_delay)
  ELSE Min(cfg.backoff_factor * (attempt + 2), cfg.max_delay)

\* The delay before the next attempt.
Delay(cfg, attempt) ==
  IF cfg.exponential
  THEN Min(cfg.backoff_factor * Pow2(attempt), cfg.max_delay)
  ELSE Min(cfg.backoff_factor * (attempt + 1), cfg.max_delay)

RECURSIVE RetryLoop(_, _, _, _, _)
\* The wrapper from loop index attempt on: what the caller gets, the wrapped
\* function's state, and the wrapper's attempts and sleeps in order.
RetryLoop(cfg, attempt, w, last_exception, log) ==
  LET
      \* func(*args, **kwargs) as the retry wrapper calls it.
      Invoke ==
        LET fo == Stamp(w.script[w.calls + 1], w.calls + 1)
        IN IF w.target = "func"
           THEN [out |-> fo, w |-> [w EXCEPT !.calls = @ + 1]]
           ELSE LET res == CBWrapper(w.map, w.name, w.now, w.threshold, w.timeout,
                                     w.expected, fo)
                IN [out |-> res.out,
                    w |-> [w EXCEPT !.map = res.map,
                                    !.kinds = Append(@, res.kind),
                                    !.calls = IF res.invoked THEN @ + 1 ELSE @]]
  IN
  LET
      \* time.sleep(delay)
      Sleep(w0, delay0) == [w0 EXCEPT !.now = @ + delay0]
  IN
  LET
      \* raise last_exception, which raises TypeError when last_exception is None.
      RaiseLast ==
        IF last_exception = NoOutcome
        THEN Exc("TypeError", "exceptions must derive from BaseException", 0)
        ELSE last_exception
  IN
  LET
      \* if attempt < max_attempts - 1
      NeedsSleep(attempt0, max_attempts) == attempt0 < max_attempts - 1
  IN
  IF ~LoopContinues(attempt, cfg.max_attempts)
  THEN [out |-> RaiseLast, w |-> w, log |-> log]
  ELSE
    LET r == Invoke
        called == Append(log, [ev |-> "attempt", arg |-> attempt])
    IN IF ~r.out.raised
       THEN [out |-> r.out, w |-> r.w, log |-> called]
       ELSE IF RetryCatches(r.out.type, cfg.exceptions)
       THEN IF NeedsSleep(attempt, cfg.max_attempts)
            THEN LET delay == Delay(cfg, attempt)
                 IN RetryLoop(cfg, attempt + 1, Sleep(r.w, delay),
                              KeepLast(last_exception, r.out),
                              Append(called, [ev |-> "sleep", arg |-> delay]))
            ELSE RetryLoop(cfg, attempt + 1, r.w,
                           KeepLast(last_exception, r.out), called)
       ELSE [out |-> r.out, w |-> r.w, log |-> called]

\* One call of the retry wrapper around w.
RetryWrapper(cfg, w) == RetryLoop(cfg, 0, w, NoOutcome, << >>)

NoResult == [out |-> NoOutcome, w |-> PlainFunc(<< >>, 0), log |-> << >>]

\* A caller calls the function decorated with with_retry.
RetryCall ==
  /\ r_pc = "ready"
  /\ r_result' = RetryWrapper(r_cfg, PlainFunc(r_script, now))
  /\ now' = r_result'.w.now
  /\ r_pc' = "done"
  /\ UNCHANGED << ccVars, contentVars, func_name, failure_threshold, recovery_timeout,
                  expected_exception, circuit_breakers, cb_last, cb_streak,
                  r_cfg, r_script, syncVars, moodleVars,
                  tokenVars, schedVars >>

(***************************************************************************)
(* LMSIntegrationService.sync_<platform>_courses:                          *)
(* with_retry(circuit_breaker(body)).                                      *)
(***************************************************************************)
Platforms == {"moodle", "canvas", "sakai", "chamilo"}

SyncMaxAttempts == 3
SyncBackoffFactor == 2
DefaultMaxDelay == 300
SyncFailureThreshold == 5
SyncRecoveryTimeout == 300

\* func.__name__ of each decorated sync method.
SyncFuncName ==
  [moodle  |-> "sync_moodle_courses",  canvas  |-> "sync_canvas_courses",
   sakai   |-> "sync_sakai_courses",   chamilo |-> "sync_chamilo_courses"]

SyncRetryCfgBroad(p) ==
  [max_attempts |-> SyncMaxAttempts, backoff_factor |-> SyncBackoffFactor,
   max_delay |-> DefaultMaxDelay, exponential |-> TRUE,
   exceptions |-> {"Exception"}]

\* The with_retry(...) of each sync method.
SyncRetryCfg(p) ==
  [max_attempts |-> SyncMaxAttempts, backoff_factor |-> SyncBackoffFactor,
   max_delay |-> DefaultMaxDelay, exponential |-> TRUE,
   exceptions |->
     IF p = "canvas"
     THEN {"RequestException", "ServiceUnavailableError", "TokenExpiredError"}
     ELSE {"RequestException", "ServiceUnavailableError"}]

\* What requests.get / raise_for_status raise for a remote outcome.
FetchRaises(remote) ==
  CASE remote = "timeout" -> "Timeout"
    [] remote = "connection_error" -> "RequestsConnectionError"
    [] remote = "http_5xx" -> "RequestsHTTPError"
    [] OTHER -> "none"

\* self.moodle_token, self.chamilo_api_key
Credential == [moodle |-> "moodle-token-value", chamilo |-> "chamilo-key-value"]

\* The URL requests builds from url and params=...: the query string holds
\* the credential for Moodle and Chamilo; Canvas sends it in a header, Sakai
\* logs in with a session.
FetchUrl(p) ==
  CASE p = "moodle" ->
         << "https://moodle.example/webservice/rest/server.php", "?",
            "wstoken=", Credential[p], "&", "wsfunction=",
            "core_course_get_courses", "&", "moodlewsrestformat=", "json" >>
    [] p = "chamilo" ->
         << "https://chamilo.example/main/webservices/api/v2.php", "?",
            "api_key=", Credential[p], "&", "action=", "get_courses" >>
    [] p = "canvas" ->
         << "https://canvas.example/api/v1/courses", "?", "per_page=", "100" >>
    [] OTHER ->
         << "https://sakai.example/direct/site.json", "?", "_limit=", "1000" >>

\* The name of the platform in the body's log lines.
Title == [moodle |-> "Moodle", canvas |-> "Canvas", sakai |-> "Sakai",
          chamilo |-> "Chamilo"]

CourseKeyPlain(p, id) == << "course", id >>

\* f"{platform}_{id}"
CourseKey(p, id) == << p, id >>

\* A record of the platform's course list: id is None when the record has
\* no id; name stands for the text fields the body copies (fullname and
\* shortname, name and course_code, title) and is Absent when the record
\* lacks them; type is the Sakai site type.
RemoteCourse(id, name, type) == [id |-> id, name |-> name, type |-> type]

\* if sakai_site.get('type') not in ['course', 'project']: continue
Skipped(p, c) == p = "sakai" /\ c.type \notin {"course", "project"}

\* DBSession.query(Course).filter_by(course_id=key).first(): the index of
\* the row, 0 for None.
FirstRow(rows, key) ==
  IF \E j \in 1..Len(rows) : rows[j].course_id = key
  THEN CHOOSE j \in 1..Len(rows) :
         /\ rows[j].course_id = key
         /\ \A k \in 1..(j - 1) : rows[k].course_id # key
  ELSE 0

\* A local course row as the body fills it.
Row(p, c) ==
  [course_id |-> CourseKey(p, c.id),
   name |-> IF c.name = Absent THEN "" ELSE c.name,
   lms |-> p, external_id |-> c.id]

RECURSIVE SyncLoop(_, _, _, _, _, _)
\* The loop over the remote courses from record i on; rows is what the
\* session holds: the committed rows with this run's changes.
SyncLoop(p, courses, i, rows, synced_count, updated_count) ==
  LET
      \* The body indexes the field (KeyError when it is not there): the id on
      \* every platform, the names on Moodle and Canvas.
      LacksField(p0, c) ==
        \/ c.id = None
        \/ p0 \in {"moodle", "canvas"} /\ c.name = Absent
  IN
  IF i > Len(courses)
  THEN [failed_at |-> 0, rows |-> rows, synced |-> synced_count,
        updated |-> updated_count]
  ELSE IF Skipped(p, courses[i])
  THEN SyncLoop(p, courses, i + 1, rows, synced_count, updated_count)
  ELSE IF LacksField(p, courses[i])
  THEN [failed_at |-> i, rows |-> rows, synced |-> synced_count,
        updated |-> updated_count]
  ELSE LET row == Row(p, courses[i])
           j == FirstRow(rows, row.course_id)
       IN IF j # 0
          THEN SyncLoop(p, courses, i + 1,
                        [rows EXCEPT ![j] = [row EXCEPT !.course_id =
                                                      rows[j].course_id]],
                        synced_count, updated_count + 1)
          ELSE SyncLoop(p, courses, i + 1, Append(rows, row),
                        synced_count + 1, updated_count)

RollbackKeep(committed, rows) == rows

\* DBSession.rollback(): the committed rows stay, the session's changes go.
Rollback(committed, rows) == committed

NoCounts == [synced |-> 0, updated |-> 0, total_processed |-> 0]

\* The body of sync_<platform>_courses run against the committed rows when
\* the platform holds courses: what it returns or raises (out), the
\* committed rows after it, the counts it returns, the record at which the
\* loop raised, and its log lines.
SyncBody(p, configured, remote, courses, committed) ==
  LET
      \* str(e) of the requests exception: an HTTPError of raise_for_status and a
      \* ConnectionError name the URL of the request, a read timeout does not.
      FetchErrorText ==
        CASE remote = "http_5xx" -> << "500 Server Error for url: " >> \o FetchUrl(p)
          [] remote = "connection_error" ->
               << "Max retries exceeded with url: " >> \o FetchUrl(p)
          [] OTHER -> << "Read timed out." >>
  IN
  LET
      \* total_processed
      TotalProcessed ==
        Cardinality({i \in 1..Len(courses) : ~Skipped(p, courses[i])})
  IN
  IF ~configured
  THEN [out |-> Exc("Exception", "must be configured", 0), rows |-> committed,
        counts |-> NoCounts, failed_at |-> 0, logs |-> << >>]
  ELSE IF FetchRaises(remote) # "none"
  THEN [out |-> IF IsSubclass(FetchRaises(remote), "RequestException")
                THEN Exc("Exception", "Failed to connect", 0)
                ELSE Exc(FetchRaises(remote), "request failed", 0),
        rows |-> committed, counts |-> NoCounts, failed_at |-> 0,
        logs |-> << << Title[p], " API request error: " >>
                      \o FetchErrorText >>]
  ELSE IF remote = "api_error"
  THEN [out |-> Exc("Exception", "API error", 0),
        rows |-> Rollback(committed, committed),
        counts |-> NoCounts, failed_at |-> 0,
        logs |-> << << Title[p], " sync error: ", Title[p], " API error: ",
                       "message" >> >>]
  ELSE LET l == SyncLoop(p, courses, 1, committed, 0, 0)
       IN IF l.failed_at # 0
          THEN [out |-> Exc("KeyError", "id", 0),
                rows |-> Rollback(committed, l.rows),
                counts |-> NoCounts, failed_at |-> l.failed_at,
                logs |-> << << Title[p], " sync error: ", "'id'" >> >>]
          ELSE [out |-> Ret(0), rows |-> l.rows,
                counts |-> [synced |-> l.synced, updated |-> l.updated,
                            total_processed |-> TotalProcessed],
                failed_at |-> 0, logs |-> << >>]

NoSync == [out |-> NoOutcome, log |-> << >>, kinds |-> << >>, calls |-> 0,
           pre |-> NewCircuit, at |-> 0, remote |-> "none",
           counts |-> NoCounts, failed_at |-> 0, logs |-> << >>]

NoErrors == [open |-> NoOutcome, http5xx |-> NoOutcome]

\* One call of sync_<platform>_courses at time `time` with the circuits
\* cbmap, when the platform does remotes[i] at the body's i-th run.
SyncWrapper(p, configured, cbmap, time, remotes, courses, committed) ==
  LET
      CircuitFunc(script0, time0, cbmap0, name, threshold, timeout, expected) ==
        [target |-> "circuit", script |-> script0, calls |-> 0, now |-> time0,
         kinds |-> << >>, map |-> cbmap0, name |-> name, threshold |-> threshold,
         timeout |-> timeout, expected |-> expected]
  IN
  LET
      \* A run of the body for which the platform's answer is not given.
      Unscripted == [raised |-> FALSE, type |-> "unscripted", msg |-> "", inv |-> 0]
  IN
  LET script == [i \in 1..SyncMaxAttempts |->
                   IF i <= Len(remotes)
                   THEN SyncBody(p, configured, remotes[i], courses,
                                 committed).out
                   ELSE Unscripted]
  IN RetryWrapper(SyncRetryCfg(p),
                  CircuitFunc(script, time, cbmap, SyncFuncName[p],
                              SyncFailureThreshold, SyncRecoveryTimeout,
                              "Exception"))

RECURSIVE RemoteScripts(_, _)
\* The platform's answers during one call made now, drawn from choices:
\* one for each run of the body, none for a run that does not happen.
RemoteScripts(given, choices) ==
  IF SyncWrapper(s_platform, s_configured, circuit_breakers, now, given,
                 s_remote, db).w.calls <= Len(given)
  THEN {given}
  ELSE UNION {RemoteScripts(Append(given, r), choices) : r \in choices}

\* A caller calls sync_<platform>_courses; remotes[i] is what the platform
\* does at the body's i-th run during this call.  A run of the body that
\* raises leaves the committed rows as they were, so every run of one call
\* starts from the rows db.
SyncCall(remotes) ==
  LET p == s_platform
  IN \E res \in {SyncWrapper(p, s_configured, circuit_breakers, now, remotes,
                             s_remote, db)} :
       LET ran == res.w.calls > 0
           remote == IF ~ran \/ ~s_configured
                     THEN "none" ELSE remotes[res.w.calls]
           body == SyncBody(p, s_configured, remote, s_remote, db)
           rejected == res.w.kinds[Len(res.w.kinds)] = "rejected"
       IN /\ circuit_breakers' = res.w.map
          /\ now' = res.w.now
          /\ db' = IF ran THEN body.rows ELSE db
          /\ s_fresh' = TRUE
          /\ s_last' = [out |-> res.out, log |-> res.log,
                        kinds |-> res.w.kinds, calls |-> res.w.calls,
                        pre |-> Circuit(circuit_breakers, SyncFuncName[p]),
                        at |-> now, remote |-> remote,
                        counts |-> IF ran THEN body.counts ELSE NoCounts,
                        failed_at |-> IF ran THEN body.failed_at ELSE 0,
                        logs |-> IF ran
                                 THEN [i \in 1..res.w.calls |->
                                         SyncBody(p, s_configured, remotes[i],
                                                  s_remote, db).logs]
                                 ELSE << >>]
          /\ s_err' = IF res.out.raised /\ rejected
                      THEN [s_err EXCEPT !.open = res.out]
                      ELSE IF res.out.raised /\ remote = "http_5xx"
                      THEN [s_err EXCEPT !.http5xx = res.out]
                      ELSE s_err
          /\ UNCHANGED << ccVars, contentVars, func_name, failure_threshold, recovery_timeout,
                          expected_exception, cb_last, cb_streak, retryVars,
                          runs, s_platform, s_configured, s_remote, moodleVars,
                  tokenVars, schedVars >>

\* The platform's course list becomes courses.
RemoteChange(courses) ==
  /\ courses # s_remote
  /\ s_remote' = courses
  /\ s_fresh' = FALSE
  /\ UNCHANGED << ccVars, contentVars, now, func_name, failure_threshold, recovery_timeout,
                  expected_exception, circuit_breakers, cb_last, cb_streak,
                  retryVars, runs, s_platform, s_configured, s_last, s_err, db,
                  moodleVars,
                  tokenVars, schedVars >>

\* POST /courses with a course_id and name of the caller's choice and lms
\* the platform: the route refuses a course_id that exists; otherwise it
\* asks the platform to create the course, which either answers with the
\* id of the new course (external = "created"), answers without one
\* ("empty") or fails ("error", logged only), and commits the row.
CreateCourseRoute(course_id, name, external) ==
  LET p == s_platform
      used == {s_remote[i].id : i \in 1..Len(s_remote)}
      free == (1..MaxCourseId) \ used
      new_id == CHOOSE k \in free : \A m \in free : k <= m
      created == external = "created" /\ free # {}
      course == [course_id |-> course_id, name |-> name, lms |-> p,
                 external_id |-> IF created THEN new_id ELSE None]
  IN /\ Len(db) < MaxRows
     /\ IF FirstRow(db, course_id) # 0
        THEN UNCHANGED << db, s_remote, s_fresh >>
        ELSE /\ db' = Append(db, course)
             /\ s_remote' = IF created
                            THEN Append(s_remote,
                                        RemoteCourse(new_id, name, "course"))
                            ELSE s_remote
             /\ s_fresh' = (s_fresh /\ ~created)
     /\ UNCHANGED << ccVars, contentVars, now, func_name, failure_threshold, recovery_timeout,
                     expected_exception, circuit_breakers, cb_last, cb_streak,
                     retryVars, runs, s_platform, s_configured, s_last, s_err,
                     moodleVars,
                  tokenVars, schedVars >>

\* Time passes between two calls.
SyncTick(d) ==
  /\ now + d <= MaxSyncTicks * SyncRecoveryTimeout
  /\ now' = now + d
  /\ UNCHANGED << ccVars, contentVars, func_name, failure_threshold, recovery_timeout,
                  expected_exception, circuit_breakers, cb_last, cb_streak,
                  retryVars, syncVars, moodleVars,
                  tokenVars, schedVars >>

(***************************************************************************)
(* Overlapping runs of sync_<platform>_courses: the scheduled loop and     *)
(* force_sync call it from different threads, each with the session of its *)
(* thread (DBSession is a scoped_session).  A run is a step per statement  *)
(* that reaches the database: the request of the course list, each query   *)
(* of the loop, the commit.                                                *)
(***************************************************************************)
\* The run of the scheduled loop and the run of force_sync.
Runs == {"scheduled", "forced"}

\* No run of sync_<platform>_courses has begun.  Of a run: i is the record
\* of the loop it is at, added the rows it gave to DBSession.add, flushed
\* how many of them its session has sent as INSERT, updated the rows it
\* rewrote, snap the committed rows at its first query, err what it raised.
RunsUnused ==
  runs = [r \in Runs |->
            [pc |-> "idle", i |-> 0, began |-> FALSE, snap |-> << >>,
             added |-> << >>, flushed |-> 0, updated |-> {},
             err |-> "none"]]

UniqueViolatedNever(r) == FALSE

\* course_id = Column(String(100), unique=True): whether the flush of the
\* session of run r is refused (IntegrityError), because a row it inserts
\* has the course_id of a committed row or of a row that another session
\* has inserted and not yet committed.
UniqueViolated(r) ==
  LET held == UNION {{runs[q].added[j].course_id : j \in 1..runs[q].flushed} :
                       q \in Runs \ {r}}
  IN \E j \in (runs[r].flushed + 1)..Len(runs[r].added) :
       \/ FirstRow(db, runs[r].added[j].course_id) # 0
       \/ runs[r].added[j].course_id \in held

\* A run begins: the check of the configuration and the request of the
\* course list, which the platform answers with its list or lets time out.
RunBegin(r, remote) ==
  /\ runs[r].pc = "idle"
  /\ runs' = [runs EXCEPT ![r] =
                IF s_configured /\ remote = "ok"
                THEN [@ EXCEPT !.pc = "loop", !.i = 1]
                ELSE [@ EXCEPT !.pc = "failed", !.err = "Exception"]]
  /\ UNCHANGED << ccVars, contentVars, cbVars, retryVars, s_platform,
                  s_configured, s_last, s_err, s_remote, s_fresh, db,
                  moodleVars, tokenVars, schedVars >>

\* One pass of the loop of a run over its record i.  The query flushes the
\* session first (autoflush); it sees the run's own rows and the committed
\* rows, as they are now or as they were at the run's first query
\* (the isolation level is the database's).  An exception ends the run:
\* DBSession.rollback(), raise.
RunStep(r) ==
  LET run == runs[r]
      p == s_platform
      c == s_remote[run.i]
      LacksField ==
        \/ c.id = None
        \/ p \in {"moodle", "canvas"} /\ c.name = Absent
      Fail(e) == [run EXCEPT !.pc = "failed", !.added = << >>,
                             !.flushed = 0, !.updated = {}, !.err = e]
      snap == IF run.began THEN run.snap ELSE db
      row == Row(p, c)
      mine == FirstRow(run.added, row.course_id)
      next == [run EXCEPT !.i = @ + 1, !.began = TRUE, !.snap = snap,
                          !.flushed = Len(run.added)]
  IN /\ run.pc = "loop"
     /\ run.i <= Len(s_remote)
     /\ \E seen \in {snap, db} :
          runs' = [runs EXCEPT ![r] =
                     IF Skipped(p, c)
                     THEN [run EXCEPT !.i = @ + 1]
                     ELSE IF LacksField
                     THEN Fail("KeyError")
                     ELSE IF UniqueViolated(r)
                     THEN Fail("IntegrityError")
                     ELSE IF mine # 0
                     THEN [next EXCEPT !.added[mine] = row]
                     ELSE IF FirstRow(seen, row.course_id) # 0
                     THEN [next EXCEPT !.updated =
                             {u \in @ : u.course_id # row.course_id}
                               \cup {row}]
                     ELSE [next EXCEPT !.added = Append(@, row)]]
     /\ UNCHANGED << ccVars, contentVars, cbVars, retryVars, s_platform,
                     s_configured, s_last, s_err, s_remote, s_fresh, db,
                     moodleVars, tokenVars, schedVars >>

\* DBSession.commit() of a run: the flush of what is left, then the rows
\* the run rewrote and the rows it added become committed rows.
RunCommit(r) ==
  LET run == runs[r]
      Rewritten(old) ==
        IF \E u \in run.updated : u.course_id = old.course_id
        THEN CHOOSE u \in run.updated : u.course_id = old.course_id
        ELSE old
  IN /\ run.pc = "loop"
     /\ run.i > Len(s_remote)
     /\ IF UniqueViolated(r)
        THEN /\ runs' = [runs EXCEPT ![r] =
                           [run EXCEPT !.pc = "failed", !.added = << >>,
                                       !.flushed = 0, !.updated = {},
                                       !.err = "IntegrityError"]]
             /\ db' = db
        ELSE /\ runs' = [runs EXCEPT ![r] =
                           [run EXCEPT !.pc = "done", !.added = << >>,
                                       !.flushed = 0, !.updated = {}]]
             /\ db' = [j \in 1..Len(db) |-> Rewritten(db[j])] \o run.added
     /\ UNCHANGED << ccVars, contentVars, cbVars, retryVars, s_platform,
                     s_configured, s_last, s_err, s_remote, s_fresh,
                     moodleVars, tokenVars, schedVars >>

(***************************************************************************)
(* lms_api/services/moodle_service.py: MoodleService, the Moodle REST      *)
(* client.  A text is a sequence of fragments; a dict of parameters is the *)
(* set of its <<key, n>> pairs, n the integer value or the length of the   *)
(* list under the key.                                                     *)
(***************************************************************************)
\* A JSON document: a dict, a list or an int, with n its unread
\* notifications, its length or its value.
NoData == [kind |-> "none", n |-> 0]

\* MoodleError(message, error_code, status_code) and its subclasses.
MoodleErr(type, msg, error_code, status_code) ==
  [raised |-> TRUE, type |-> type, msg |-> msg, error_code |-> error_code,
   status_code |-> status_code, data |-> NoData]

\* A value returned by the client.
MoodleRet(data) ==
  [raised |-> FALSE, type |-> "value", msg |-> << >>, error_code |-> NoneStr,
   status_code |-> None, data |-> data]

NoMoodleOutcome ==
  [raised |-> FALSE, type |-> "none", msg |-> << >>, error_code |-> NoneStr,
   status_code |-> None, data |-> NoData]

IDEMPOTENT_FUNCTIONS ==
  {"core_webservice_get_site_info", "core_course_get_courses",
   "core_user_get_users_by_field", "message_popup_get_popup_notifications",
   "core_message_get_popup_notifications",
   "core_message_get_unread_popup_notifications_count"}

AUTH_ERRORS == {"invalidtoken", "accessexception", "nopermissions", "notloggedin"}
VALIDATION_ERRORS == {"invalidparameter", "missingparam", "invalidrecord"}
NOT_FOUND_ERRORS == {"invaliduser", "invalidcourse", "coursenotexist"}

NormalizeErrorFlat(response_data) ==
  MoodleErr("MoodleError", << "Moodle error: ", response_data.message >>,
            response_data.errorcode, 500)

\* _normalize_error(response_data)
NormalizeError(response_data) ==
  LET error_code == IF response_data.errorcode = Absent
                    THEN "unknown" ELSE response_data.errorcode
      message == IF response_data.message = Absent
                 THEN "Unknown Moodle error" ELSE response_data.message
  IN IF error_code \in AUTH_ERRORS
     THEN IF error_code = "invalidtoken"
          THEN MoodleErr("MoodleAuthError", << "Invalid Moodle token" >>,
                         error_code, 401)
          ELSE MoodleErr("MoodleAuthError", << "Access denied: ", message >>,
                         error_code, 403)
     ELSE IF error_code \in VALIDATION_ERRORS
     THEN MoodleErr("MoodleValidationError", << "Validation error: ", message >>,
                    error_code, 400)
     ELSE IF error_code \in NOT_FOUND_ERRORS
     THEN MoodleErr("MoodleNotFoundError", << "Resource not found: ", message >>,
                    error_code, 404)
     ELSE MoodleErr("MoodleError", << "Moodle error: ", message >>, error_code, 500)

\* What one requests.post does: the transport fails ("timeout",
\* "connection_error", "unexpected"), the server answers with an HTTP error
\* status ("http_error"), with a body that is not JSON ("invalid_json"), with
\* a JSON document ("data") or with Moodle's error document ("error").
PostOutcome(kind, status, errorcode, message, data) ==
  [kind |-> kind, status |-> status, errorcode |-> errorcode,
   message |-> message, data |-> data]

\* The client during one operation: script[i] is what the i-th POST does,
\* pos the POSTs made, posts and calls the POSTs and the calls of call() in
\* order, sleeps the waits in milliseconds, logs the log lines.
NewClient(script, debug) ==
  [script |-> script, pos |-> 0, posts |-> << >>, calls |-> << >>,
   sleeps |-> << >>, logs |-> << >>, debug |-> debug]

MaxRetriesDefault == 2
BaseWaitMs == 100

RetriesAlways(wsfunction) == MaxRetriesDefault

\* retries = max_retries if is_idempotent else 0
Retries(wsfunction) ==
  IF wsfunction \in IDEMPOTENT_FUNCTIONS THEN MaxRetriesDefault ELSE 0

AttemptsLeftShort(attempt, retries) == attempt < retries

\* for attempt in range(retries + 1)
AttemptsLeft(attempt, retries) == attempt < retries + 1

RECURSIVE RequestLoop(_, _, _, _, _, _)
\* The loop of _make_request_with_retry from index attempt on.
RequestLoop(w, wsfunction, params, retries, attempt, last_exception) ==
  LET
      NextPost ==
        LET
            \* A POST for which the server's answer is not given.
            UnscriptedPost ==
                              PostOutcome("data", 200, Absent, Absent, NoData)
        IN
        IF w.pos < Len(w.script) THEN w.script[w.pos + 1] ELSE UnscriptedPost
  IN
  LET
      \* The MoodleError an except clause of the request loop keeps.
      TransportError(o) ==
        CASE o.kind = "timeout" ->
               MoodleErr("MoodleError", << "Request timeout" >>, NoneStr, 504)
          [] o.kind = "connection_error" ->
               MoodleErr("MoodleError", << "Connection error to Moodle server" >>,
                         NoneStr, 503)
          [] o.kind = "http_error" ->
               MoodleErr("MoodleError", << "HTTP error: ", ToString(o.status) >>,
                         NoneStr, o.status)
          [] OTHER ->
               MoodleErr("MoodleError", << "Unexpected error: ", o.message >>,
                         NoneStr, 500)
  IN
  LET
      \* wait_time = (2 ** attempt) * 0.1, in milliseconds
      WaitTime == Pow2(attempt) * BaseWaitMs
  IN
  IF ~AttemptsLeft(attempt, retries)
  THEN [out |-> last_exception, w |-> w]
  ELSE
    LET o == NextPost
        retrying == IF w.debug /\ attempt > 0
                    THEN << << "Retrying Moodle request", wsfunction >> >>
                    ELSE << >>
        w1 == [w EXCEPT !.pos = @ + 1,
                        !.posts = Append(@, [fn |-> wsfunction,
                                             params |-> params]),
                        !.logs = @ \o retrying]
    IN IF o.kind = "data"
       THEN [out |-> MoodleRet(o.data), w |-> w1]
       ELSE IF o.kind = "error"
       THEN [out |-> NormalizeError(o), w |-> w1]
       ELSE IF o.kind = "invalid_json"
       THEN [out |-> MoodleErr("MoodleError",
                               << "Invalid JSON response from Moodle" >>,
                               NoneStr, 502),
             w |-> w1]
       ELSE RequestLoop(IF attempt < retries
                        THEN [w1 EXCEPT !.sleeps = Append(@, WaitTime)]
                        ELSE w1,
                        wsfunction, params, retries, attempt + 1,
                        TransportError(o))

\* _make_request_with_retry(wsfunction, params)
MakeRequestWithRetry(w, wsfunction, params) ==
  RequestLoop(w, wsfunction, params, Retries(wsfunction), 0, NoMoodleOutcome)

\* call(wsfunction, params) under log_moodle_request.
Call(w, wsfunction, params) ==
  LET
      \* re.sub(r'wstoken=[^&]*', 'wstoken=[REDACTED]', text)
      Redact(text) ==
        [i \in 1..Len(text) |->
           IF i > 1 /\ text[i - 1] = "wstoken=" THEN "[REDACTED]" ELSE text[i]]
  IN
  LET
      \* self.base_url
      MoodleBaseUrl ==
                       << "https://moodle.example/webservice/rest/server.php" >>
  IN
  LET started == IF w.debug
                 THEN << << "Moodle API request started", wsfunction >>
                           \o Redact(MoodleBaseUrl) >>
                 ELSE << >>
      r == MakeRequestWithRetry([w EXCEPT !.logs = @ \o started],
                                wsfunction, params)
      ended == IF r.out.raised
               THEN << << "Moodle API request failed", wsfunction >>
                         \o r.out.msg >>
               ELSE IF w.debug
               THEN << << "Moodle API request completed", wsfunction >> >>
               ELSE << >>
  IN [out |-> r.out,
      w |-> [r.w EXCEPT !.logs = @ \o ended,
                        !.calls = Append(@, [fn |-> wsfunction,
                                             params |-> params,
                                             out |-> r.out])]]

RequiredCourseFields == << "fullname", "shortname", "categoryid" >>

\* create_course(course_data), course_data given by the keys it holds; it
\* returns the first element of a list that is not empty.
CreateCourse(w, course_data) ==
  IF \E i \in 1..Len(RequiredCourseFields) :
       RequiredCourseFields[i] \notin course_data
  THEN LET i == CHOOSE i \in 1..Len(RequiredCourseFields) :
                  /\ RequiredCourseFields[i] \notin course_data
                  /\ \A j \in 1..(i - 1) : RequiredCourseFields[j] \in course_data
       IN [out |-> MoodleErr("MoodleValidationError",
                             << "Required field missing: ",
                                RequiredCourseFields[i] >>, NoneStr, None),
           w |-> w]
  ELSE LET r == Call(w, "core_course_create_courses", {<< "courses", 1 >>})
       IN IF r.out.raised THEN r
          ELSE [out |-> MoodleRet(IF r.out.data.kind = "list" /\ r.out.data.n > 0
                                  THEN [kind |-> "dict", n |-> 0]
                                  ELSE r.out.data),
                w |-> r.w]

\* update_course(course_update), course_update given by the keys it holds.
UpdateCourse(w, course_update) ==
  IF "id" \notin course_update
  THEN [out |-> MoodleErr("MoodleValidationError",
                          << "Course ID is required for update" >>,
                          NoneStr, None),
        w |-> w]
  ELSE Call(w, "core_course_update_courses", {<< "courses", 1 >>})

\* A value under a key of an enrolment: an int, a float with integer part n
\* and a fractional part or none, a str that is the decimal literal of n or
\* no integer literal at all, or None; "missing" is a key that is not there.
Value(t, n, frac, numeric) == [t |-> t, n |-> n, frac |-> frac, numeric |-> numeric]

\* int(value): the integer, or the exception it raises.
PyInt(v) ==
  CASE v.t = "int" -> [raised |-> FALSE, type |-> "value", n |-> v.n]
    [] v.t = "float" -> [raised |-> FALSE, type |-> "value", n |-> v.n]
    [] v.t = "str" ->
         IF v.numeric
         THEN [raised |-> FALSE, type |-> "value", n |-> v.n]
         ELSE [raised |-> TRUE, type |-> "ValueError", n |-> 0]
    [] OTHER -> [raised |-> TRUE, type |-> "TypeError", n |-> 0]

EnrolmentFields == << "roleid", "userid", "courseid" >>

\* What the validation loop of enrol_users finds in one field.
FieldCheck(v) ==
  IF v.t = "missing" THEN "Required field missing"
  ELSE IF PyInt(v).raised THEN "must be integer"
  ELSE IF PyInt(v).n <= 0 THEN "must be positive integer"
  ELSE "ok"

EnrolmentOk(enrolment) ==
  \A k \in 1..Len(EnrolmentFields) : FieldCheck(enrolment[EnrolmentFields[k]]) = "ok"

\* enrol_users(enrolments)
EnrolUsers(w, enrolments) ==
  IF Len(enrolments) = 0
  THEN [out |-> MoodleRet(NoData), w |-> w]
  ELSE IF \E i \in 1..Len(enrolments) : ~EnrolmentOk(enrolments[i])
  THEN LET i == CHOOSE i \in 1..Len(enrolments) :
                  /\ ~EnrolmentOk(enrolments[i])
                  /\ \A j \in 1..(i - 1) : EnrolmentOk(enrolments[j])
           k == CHOOSE k \in 1..Len(EnrolmentFields) :
                  /\ FieldCheck(enrolments[i][EnrolmentFields[k]]) # "ok"
                  /\ \A j \in 1..(k - 1) :
                       FieldCheck(enrolments[i][EnrolmentFields[j]]) = "ok"
       IN [out |-> MoodleErr("MoodleValidationError",
                             << FieldCheck(enrolments[i][EnrolmentFields[k]]),
                                EnrolmentFields[k] >>, NoneStr, None),
           w |-> w]
  ELSE Call(w, "enrol_manual_enrol_users",
            {<< "enrolments", Len(enrolments) >>})

FallbackAlways(e) == TRUE

\* e.error_code == 'invalidfunction' or 'function not found' in str(e).lower()
FunctionUnavailable(e) ==
  LET lower(s) == IF s = "Function not found" THEN "function not found" ELSE s
  IN \/ e.error_code = "invalidfunction"
     \/ \E i \in 1..Len(e.msg) : lower(e.msg[i]) = "function not found"

\* get_popup_notifications(userid, limit, offset)
GetPopupNotifications(w, userid, limit, offset) ==
  LET r == Call(w, "message_popup_get_popup_notifications",
                {<< "useridto", userid >>, << "limitfrom", offset >>,
                 << "limitnum", limit >>})
  IN IF r.out.raised /\ IsSubclass(r.out.type, "MoodleError")
                     /\ FunctionUnavailable(r.out)
     THEN Call(r.w, "core_message_get_popup_notifications",
               {<< "userid", userid >>, << "limitfrom", offset >>,
                << "limitnum", limit >>})
     ELSE r

\* get_unread_popup_count(userid)
GetUnreadPopupCount(w, userid) ==
  LET r == Call(w, "core_message_get_unread_popup_notifications_count",
                {<< "useridto", userid >>})
      zero == [kind |-> "int", n |-> 0]
  IN IF ~r.out.raised
     THEN [out |-> MoodleRet(IF r.out.data.kind = "int" THEN r.out.data ELSE zero),
           w |-> r.w]
     ELSE IF IsSubclass(r.out.type, "MoodleError") /\ FunctionUnavailable(r.out)
     THEN LET f == GetPopupNotifications(r.w, userid, 100, 0)
          IN IF f.out.raised THEN f
             ELSE [out |-> MoodleRet(IF f.out.data.kind = "dict"
                                     THEN [kind |-> "int", n |-> f.out.data.n]
                                     ELSE zero),
                   w |-> f.w]
     ELSE r

\* A Python value: t is its type; b, n and s hold a bool, an int and a str;
\* items holds the <<key, value>> pairs of a dict in insertion order and
\* the <<"", item>> pairs of a list.
PyVal(t, b, n, s, items) == [t |-> t, b |-> b, n |-> n, s |-> s, items |-> items]

ScalarTextStr(obj) ==
  CASE obj.t = "bool" -> IF obj.b THEN "True" ELSE "False"
    [] obj.t = "none" -> ""
    [] obj.t = "int" -> ToString(obj.n)
    [] OTHER -> obj.s

\* '1' if obj else '0' for a bool, otherwise str(obj) if obj is not None
\* else ''.
ScalarText(obj) ==
  CASE obj.t = "bool" -> IF obj.b THEN "1" ELSE "0"
    [] obj.t = "none" -> ""
    [] obj.t = "int" -> ToString(obj.n)
    [] OTHER -> obj.s

RECURSIVE EncodeRecursive(_, _, _, _)
\* _encode_recursive(obj, prefix) from item i of obj on, with the result
\* dict as the set of its <<key, value>> pairs.  A key is the sequence of
\* its fragments; a prefix is false when it is the empty string.
EncodeRecursive(obj, i, prefix, result) ==
  IF obj.t \in {"dict", "list"}
  THEN IF i > Len(obj.items)
       THEN result
       ELSE LET key == IF obj.t = "dict"
                       THEN obj.items[i][1] ELSE ToString(i - 1)
                truthy == \E j \in 1..Len(prefix) : prefix[j] # ""
                new_key == IF obj.t = "dict" /\ ~truthy
                           THEN << key >>
                           ELSE prefix \o << "[", key, "]" >>
            IN EncodeRecursive(obj, i + 1, prefix,
                               EncodeRecursive(obj.items[i][2], 1, new_key,
                                               result))
  ELSE {e \in result : e[1] # prefix} \cup {<< prefix, ScalarText(obj) >>}

NoRequest ==
  [op |-> "none", fn |-> "", fields |-> {}, enrolments |-> << >>,
   userid |-> 0, debug |-> FALSE, data |-> PyVal("dict", FALSE, 0, "", << >>)]

\* One operation of the client against the POST outcomes script.
Run(req, script) ==
  LET w == NewClient(script, req.debug)
  IN CASE req.op = "call" -> Call(w, req.fn, {})
       [] req.op = "create_course" -> CreateCourse(w, req.fields)
       [] req.op = "update_course" -> UpdateCourse(w, req.fields)
       [] req.op = "enrol_users" -> EnrolUsers(w, req.enrolments)
       [] req.op = "get_popup_notifications" ->
            GetPopupNotifications(w, req.userid, 20, 0)
       [] req.op = "get_unread_popup_count" ->
            GetUnreadPopupCount(w, req.userid)
       [] OTHER -> [out |-> NoMoodleOutcome, w |-> w]

\* A caller calls the operation op of the client.
MoodleOp(op) ==
  /\ m_pc = "ready"
  /\ m_req.op = op
  /\ m_result' = Run(m_req, m_script)
  /\ m_pc' = "done"
  /\ UNCHANGED << ccVars, contentVars, now, func_name, failure_threshold, recovery_timeout,
                  expected_exception, circuit_breakers, cb_last, cb_streak,
                  retryVars, syncVars, m_req, m_script, m_encoded,
                  tokenVars, schedVars >>

\* A caller calls MoodleParamEncoder.encode_params(data).
EncodeParams ==
  /\ m_pc = "ready"
  /\ m_req.op = "encode_params"
  /\ m_encoded' = EncodeRecursive(m_req.data, 1, << >>, {})
  /\ m_pc' = "done"
  /\ UNCHANGED << ccVars, contentVars, now, func_name, failure_threshold, recovery_timeout,
                  expected_exception, circuit_breakers, cb_last, cb_streak,
                  retryVars, syncVars, m_req, m_script, m_result,
                  tokenVars, schedVars >>

(***************************************************************************)
(* lms_api/services/retry_service.py: TokenManager.  A service that holds  *)
(* no token maps to Absent, one that holds no expiry to None.              *)
(***************************************************************************)

\* A caller calls store_token(service, token, expires_in) at time now.
StoreToken(service, token, expires_in) ==
  /\ tokens' = [tokens EXCEPT ![service] = token]
  /\ token_expiry' = IF expires_in # None /\ expires_in # 0
                     THEN [token_expiry EXCEPT ![service] = now + expires_in]
                     ELSE token_expiry
  /\ tk_asked' = [tk_asked EXCEPT ![service] =
                    IF expires_in = None THEN None ELSE now + expires_in]
  /\ tk_last' = [op |-> "store", service |-> service, token |-> token,
                 asked |-> tk_asked'[service], at |-> now, ret |-> NoneStr]
  /\ UNCHANGED << ccVars, contentVars, cbVars, retryVars, syncVars, moodleVars, schedVars >>

\* A caller calls get_valid_token(service) at time now.
GetValidToken(service) ==
  LET
      \* _refresh_token(service): the maps after it.
      RefreshToken(toks, expiry0, service0) ==
        [tokens |-> [toks EXCEPT ![service0] = Absent],
         token_expiry |-> [expiry0 EXCEPT ![service0] = None]]
  IN
  LET token == tokens[service]
      expiry == token_expiry[service]
      expired == expiry # None /\ now >= expiry
      refreshed == RefreshToken(tokens, token_expiry, service)
      ret == IF token \in {Absent, ""} THEN NoneStr
             ELSE IF expired
             THEN IF refreshed.tokens[service] = Absent
                  THEN NoneStr ELSE refreshed.tokens[service]
             ELSE token
  IN /\ tokens' = IF token \notin {Absent, ""} /\ expired
                  THEN refreshed.tokens ELSE tokens
     /\ token_expiry' = IF token \notin {Absent, ""} /\ expired
                        THEN refreshed.token_expiry ELSE token_expiry
     /\ tk_asked' = IF tokens'[service] = Absent
                    THEN [tk_asked EXCEPT ![service] = None] ELSE tk_asked
     /\ tk_last' = [op |-> "get", service |-> service, token |-> token,
                    asked |-> tk_asked[service], at |-> now, ret |-> ret]
     /\ UNCHANGED << ccVars, contentVars, cbVars, retryVars, syncVars, moodleVars, schedVars >>

(***************************************************************************)
(* lms_api/services/sync_service.py: SyncService.  One thread calls the    *)
(* public operations; each thread that start() creates runs _sync_loop.    *)
(* A sync of a platform is what the integration service's method does as   *)
(* its caller sees it: it returns (TRUE) or raises (FALSE).                *)
(***************************************************************************)
DefaultInterval == 300
MinInterval == 60
BackoffSeconds == 60

Threads == 1..MaxThreads

\* A thread: where it is in _sync_loop, the syncs its pass has invoked so
\* far as <<platform, returned>> pairs, the platforms whose last_sync its
\* pass has set, and the timeout of its wait after an exception.  A wait
\* ends when its timeout has passed or the stop event is set; how long a
\* timeout is does not change what can happen next.
NoThread == [pc |-> "none", calls |-> << >>, stamped |-> {}, timeout |-> 0]

NoOp == [op |-> "none", p |-> NoneStr, v |-> 0, raised |-> FALSE,
         type |-> "none", calls |-> << >>, ret |-> "none"]

\* _get_configured_lms_platforms() when the credentials of the platforms
\* in configured are set.
ConfiguredPlatforms(configured) ==
  SelectSeq(<< "moodle", "canvas", "sakai", "chamilo" >>,
            LAMBDA p : p \in configured)

SyncOneAlways(last, p, returned) == [last EXCEPT ![p] = TRUE]

\* One iteration of the loop of _perform_sync: last_sync after the sync of
\* p returned or raised.
SyncOne(last, p, returned) ==
  IF returned THEN [last EXCEPT ![p] = TRUE] ELSE last

SwallowedNever(returned) == returned

\* try / except Exception around the sync of one platform in _perform_sync:
\* whether the loop goes on to the next platform after the sync returned
\* or raised.  The handler logs and raises nothing.
Swallowed(returned) == TRUE

RECURSIVE PerformSync(_, _, _, _, _)
\* _perform_sync() from platform i on, when the sync of p returns iff
\* outcomes[p]: the calls made, last_sync after them and whether an
\* exception left _perform_sync.
PerformSync(platforms, i, outcomes, last, calls) ==
  IF i > Len(platforms)
  THEN [last_sync |-> last, calls |-> calls, raised |-> FALSE]
  ELSE LET p == platforms[i]
           after == SyncOne(last, p, outcomes[p])
           made == Append(calls, << p, outcomes[p] >>)
       IN IF Swallowed(outcomes[p])
          THEN PerformSync(platforms, i + 1, outcomes, after, made)
          ELSE [last_sync |-> after, calls |-> made, raised |-> TRUE]

\* start(), or start_sync_service(interval) when interval is not None.
Start(interval) ==
  LET free == {t \in Threads : threads[t].pc \in {"none", "exited"}}
      t == CHOOSE k \in free : \A m \in free : k <= m
  IN /\ c_pc = "idle"
     /\ is_running \/ free # {}
     /\ sync_interval' = IF interval = None THEN sync_interval ELSE interval
     /\ IF is_running
        THEN UNCHANGED << is_running, stop_event, sync_thread, threads >>
        ELSE /\ is_running' = TRUE
             /\ stop_event' = FALSE
             /\ sync_thread' = t
             /\ threads' = [threads EXCEPT ![t] = [NoThread EXCEPT !.pc = "check"]]
     /\ sc_last' = [NoOp EXCEPT !.op = IF interval = None THEN "start"
                                       ELSE "start_sync_service",
                                !.v = IF interval = None THEN 0 ELSE interval]
     /\ UNCHANGED << ccVars, contentVars, cbVars, retryVars, syncVars, moodleVars, tokenVars,
                     last_sync, sc_platforms, c_pc >>

\* stop() up to its join.
StopBegin ==
  /\ c_pc = "idle"
  /\ IF ~is_running
     THEN /\ sc_last' = [NoOp EXCEPT !.op = "stop"]
          /\ UNCHANGED << is_running, stop_event, c_pc >>
     ELSE /\ is_running' = FALSE
          /\ stop_event' = TRUE
          /\ c_pc' = IF sync_thread # 0 THEN "joining" ELSE "idle"
          /\ sc_last' = [NoOp EXCEPT !.op = "stop"]
  /\ UNCHANGED << ccVars, contentVars, cbVars, retryVars, syncVars, moodleVars, tokenVars,
                  sync_interval, sync_thread, last_sync, sc_platforms, threads >>

\* self.sync_thread.join(timeout=10) returns: the thread has ended, or the
\* 10 seconds pass while the thread is inside the sync of a platform.
StopReturn ==
  /\ c_pc = "joining"
  /\ \/ threads[sync_thread].pc = "exited"
     \/ /\ threads[sync_thread].pc = "perform"
        /\ Len(threads[sync_thread].calls) < Len(sc_platforms)
  /\ c_pc' = "idle"
  /\ UNCHANGED << ccVars, contentVars, cbVars, retryVars, syncVars, moodleVars, tokenVars,
                  sync_interval, is_running, stop_event, sync_thread,
                  last_sync, sc_platforms, threads, sc_last >>

IntervalRejectedNever(interval_seconds) == FALSE

\* if interval_seconds < 60
IntervalRejected(interval_seconds) == interval_seconds < MinInterval

\* set_sync_interval(interval_seconds)
SetSyncInterval(interval_seconds) ==
  /\ c_pc = "idle"
  /\ sync_interval' = IF IntervalRejected(interval_seconds)
                      THEN sync_interval ELSE interval_seconds
  /\ sc_last' = [NoOp EXCEPT !.op = "set_sync_interval",
                             !.v = interval_seconds,
                             !.raised = IntervalRejected(interval_seconds),
                             !.type = IF IntervalRejected(interval_seconds)
                                      THEN "ValueError" ELSE "none"]
  /\ UNCHANGED << ccVars, contentVars, cbVars, retryVars, syncVars, moodleVars, tokenVars,
                  is_running, stop_event, sync_thread, last_sync,
                  sc_platforms, threads, c_pc >>

ForceStampFirst(last, lms_type, returned) == [last EXCEPT ![lms_type] = TRUE]

\* self.last_sync[lms_type] = datetime.now() of force_sync, which follows
\* the call of the sync and is reached only when that call returned.
ForceStamp(last, lms_type, returned) ==
  IF returned THEN [last EXCEPT ![lms_type] = TRUE] ELSE last

\* force_sync(lms_type) when the sync of p returns iff outcomes[p]; a sync
\* of a platform that is not configured raises.
ForceSync(lms_type, outcomes) ==
  LET all == PerformSync(sc_platforms, 1, outcomes, last_sync, << >>)
      returned == /\ lms_type \in Platforms
                  /\ outcomes[lms_type]
                  /\ \E i \in 1..Len(sc_platforms) : sc_platforms[i] = lms_type
  IN /\ c_pc = "idle"
     /\ last_sync' = IF lms_type \in {NoneStr, ""} THEN all.last_sync
                     ELSE IF lms_type \in Platforms
                     THEN ForceStamp(last_sync, lms_type, returned)
                     ELSE last_sync
     /\ sc_last' =
          IF lms_type \in {NoneStr, ""}
          THEN [NoOp EXCEPT !.op = "force_sync", !.p = lms_type,
                            !.calls = all.calls,
                            !.raised = all.raised,
                            !.type = IF all.raised THEN "Exception" ELSE "none",
                            !.ret = IF all.raised THEN "none" ELSE "all_synced"]
          ELSE IF lms_type \notin Platforms
          THEN [NoOp EXCEPT !.op = "force_sync", !.p = lms_type,
                            !.raised = TRUE, !.type = "ValueError"]
          ELSE [NoOp EXCEPT !.op = "force_sync", !.p = lms_type,
                            !.calls = << << lms_type, returned >> >>,
                            !.raised = ~returned,
                            !.type = IF returned THEN "none" ELSE "Exception",
                            !.ret = IF returned THEN "sync_result" ELSE "none"]
     /\ UNCHANGED << ccVars, contentVars, cbVars, retryVars, syncVars, moodleVars, tokenVars,
                     sync_interval, is_running, stop_event, sync_thread,
                     sc_platforms, threads, c_pc >>

SyncLoopRunsAlways(is_set) == TRUE

\* while not self.stop_event.is_set()
SyncLoopRuns(is_set) == ~is_set

\* Thread t evaluates the condition of the loop and either enters
\* _perform_sync or ends.
LoopCheck(t) ==
  /\ threads[t].pc = "check"
  /\ threads' = [threads EXCEPT ![t] = IF SyncLoopRuns(stop_event)
                             THEN [NoThread EXCEPT !.pc = "perform"]
                             ELSE [NoThread EXCEPT !.pc = "exited"]]
  /\ UNCHANGED << ccVars, contentVars, cbVars, retryVars, syncVars, moodleVars, tokenVars,
                  sync_interval, is_running, stop_event, sync_thread,
                  last_sync, sc_platforms, c_pc, sc_last >>

\* Thread t, inside _perform_sync, syncs the next configured platform,
\* whose sync returns or raises.
SyncStep(t, returned) ==
  LET i == Len(threads[t].calls) + 1
      p == sc_platforms[i]
  IN /\ threads[t].pc = "perform"
     /\ i <= Len(sc_platforms)
     /\ last_sync' = SyncOne(last_sync, p, returned)
     /\ threads' = [threads EXCEPT
                     ![t].calls = Append(@, << p, returned >>),
                     ![t].stamped =
                        IF SyncOne([q \in Platforms |-> FALSE], p, returned)[p]
                        THEN @ \cup {p} ELSE @]
     /\ UNCHANGED << ccVars, contentVars, cbVars, retryVars, syncVars, moodleVars, tokenVars,
                     sync_interval, is_running, stop_event, sync_thread,
                     sc_platforms, c_pc, sc_last >>

\* _perform_sync returns to thread t, which calls
\* stop_event.wait(timeout=self.sync_interval).
PassEnd(t) ==
  /\ threads[t].pc = "perform"
  /\ Len(threads[t].calls) = Len(sc_platforms)
  /\ threads' = [threads EXCEPT ![t].pc = "wait"]
  /\ UNCHANGED << ccVars, contentVars, cbVars, retryVars, syncVars, moodleVars, tokenVars,
                  sync_interval, is_running, stop_event, sync_thread,
                  last_sync, sc_platforms, c_pc, sc_last >>

OnEscapeExit == [pc |-> "exited", timeout |-> 0]

\* except Exception in _sync_loop: log, then stop_event.wait(timeout=60).
OnEscape == [pc |-> "backoff", timeout |-> BackoffSeconds]

\* An exception escapes the _perform_sync of thread t.
Escape(t) ==
  /\ threads[t].pc = "perform"
  /\ threads' = [threads EXCEPT ![t] = [NoThread EXCEPT !.pc = OnEscape.pc,
                                                        !.timeout = OnEscape.timeout]]
  /\ UNCHANGED << ccVars, contentVars, cbVars, retryVars, syncVars, moodleVars, tokenVars,
                  sync_interval, is_running, stop_event, sync_thread,
                  last_sync, sc_platforms, c_pc, sc_last >>

\* The wait of thread t returns: its timeout has passed or the stop event
\* is set.
WaitEnd(t) ==
  /\ threads[t].pc \in {"wait", "backoff"}
  /\ threads' = [threads EXCEPT ![t] = [NoThread EXCEPT !.pc = "check"]]
  /\ UNCHANGED << ccVars, contentVars, cbVars, retryVars, syncVars, moodleVars, tokenVars,
                  sync_interval, is_running, stop_event, sync_thread,
                  last_sync, sc_platforms, c_pc, sc_last >>

(***************************************************************************)
(* lms_api/services/retry_service.py: the circuit breaker's wrapper called *)
(* by several threads for one decorated function.  circuit_breakers.get    *)
(* returns the stored dict itself, or a new dict of the calling thread     *)
(* when none is stored; the dict of thread t's own making is cc_obj[t].    *)
(* A thread runs the statements up to the call of func, the statements     *)
(* that follow it up to the assignment to circuit_breakers, and that       *)
(* assignment, each without another thread running in between.             *)
(***************************************************************************)
NoCaller == [pc |-> "idle", ref |-> 0, at |-> 0, trial |-> FALSE,
             kind |-> "none"]

\* The circuit_state that circuit_breakers.get(func_name, {...}) gives now.
Stored == IF cc_key = 0 THEN NewCircuit ELSE cc_obj[cc_key]

\* Thread t calls wrapper: the get, the recovery check and the fail-fast
\* branch; a call that is not rejected goes on to call func.
WrapperEnter(t) ==
  LET ref == IF cc_key = 0 THEN t ELSE cc_key
      rec == AfterRecoveryCheck(Stored, now, recovery_timeout["f1"])
  IN /\ callers[t].pc = "idle"
     /\ cc_streak + Cardinality({u \in Threads : callers[u].pc # "idle"})
          < MaxStreak
     /\ cc_obj' = [cc_obj EXCEPT ![ref] = rec]
     /\ callers' = [callers EXCEPT ![t] =
                      IF rec.state = "open"
                      THEN NoCaller
                      ELSE [pc |-> "calling", ref |-> ref, at |-> now,
                            trial |-> rec.state = "half_open",
                            kind |-> "none"]]
     /\ UNCHANGED << cbVars, retryVars, syncVars, moodleVars, tokenVars,
                     schedVars, contentVars, cc_key, cc_streak >>

\* func returns to thread t or raises: the statements after it, up to the
\* assignment to circuit_breakers.  An exception that is not an
\* expected_exception leaves wrapper at once.
WrapperSettle(t, fo) ==
  LET c == callers[t]
      kind == IF ~fo.raised THEN "returned"
              ELSE IF IsSubclass(fo.type, expected_exception["f1"])
              THEN "raised" ELSE "escaped"
  IN /\ c.pc = "calling"
     /\ cc_obj' = [cc_obj EXCEPT ![c.ref] =
                     CASE kind = "returned" -> OnSuccess(@)
                       [] kind = "raised"
                            -> OnFailure(@, c.at, failure_threshold["f1"])
                       [] OTHER -> @]
     /\ callers' = [callers EXCEPT ![t] =
                      IF kind = "escaped"
                      THEN NoCaller
                      ELSE [c EXCEPT !.pc = "storing", !.kind = kind]]
     /\ UNCHANGED << cbVars, retryVars, syncVars, moodleVars, tokenVars,
                     schedVars, contentVars, cc_key, cc_streak >>

\* self.circuit_breakers[func_name] = circuit_state by thread t, which then
\* returns the result or raises the exception again.
WrapperStore(t) ==
  /\ callers[t].pc = "storing"
  /\ cc_key' = callers[t].ref
  /\ cc_streak' = StreakAfter(cc_streak, callers[t].kind)
  /\ callers' = [callers EXCEPT ![t] = NoCaller]
  /\ UNCHANGED << cbVars, retryVars, syncVars, moodleVars, tokenVars,
                  schedVars, contentVars, cc_obj >>

\* No thread is calling a decorated function.
CallersUnused ==
  /\ cc_obj = << >>
  /\ cc_key = 0
  /\ callers = << >>
  /\ cc_streak = 0

(***************************************************************************)
(* lms_api/views/content.py: upload_content and its handlers, from the     *)
(* commit of the local record on.  The courses are the rows of db.  What   *)
(* upload_to_moodle or upload_to_canvas does is up: it returns an id       *)
(* (None when the platform's answer carries none) or raises.               *)
(***************************************************************************)
Returned(id) == [raised |-> FALSE, type |-> "value", id |-> id]
Raised(type) == [raised |-> TRUE, type |-> type, id |-> None]

NoUpload == [op |-> "none", course_id |-> << >>, status |-> "none",
             called |-> FALSE, up |-> Returned(None), row |-> 0]

ExternalCaughtRequestOnly(type) == IsSubclass(type, "RequestException")

\* except Exception as ext_error: log.warning(...)
ExternalCaught(type) == IsSubclass(type, "Exception")

\* The try block that follows the commit: whether an upload method was
\* called, the lms_resource_id the handler commits (None for none) and the
\* exception that leaves the handler ("none" for none).  For a platform
\* other than moodle and canvas no method is called and external_id is
\* read without having been assigned.
ExternalUpload(course, up) ==
  IF course.lms = "local" \/ course.external_id \in {None, 0}
  THEN [called |-> FALSE, resource |-> None, escaped |-> "none"]
  ELSE LET called == course.lms \in {"moodle", "canvas"}
           out == IF called THEN up ELSE Raised("UnboundLocalError")
       IN IF out.raised
          THEN [called |-> called, resource |-> None,
                escaped |-> IF ExternalCaught(out.type) THEN "none"
                            ELSE out.type]
          ELSE [called |-> called,
                resource |-> IF out.id \in {None, 0} THEN None ELSE out.id,
                escaped |-> "none"]

\* POST of a content item to the course course_id.  The row is committed
\* with lms_resource_id None before the external part and committed again
\* when an id came back; lms_resource_id stands for str(external_id).
UploadContent(course_id, up) ==
  LET j == FirstRow(db, course_id)
      ext == ExternalUpload(db[j], up)
  IN /\ Len(contents) < MaxContents
     /\ IF j = 0
        THEN /\ contents' = contents
             /\ ct_last' = [NoUpload EXCEPT !.op = "upload_content",
                                            !.course_id = course_id,
                                            !.status = "ResourceNotFoundError"]
        ELSE /\ contents' = Append(contents,
                                   [course_id |-> course_id,
                                    lms_resource_id |-> ext.resource])
             /\ ct_last' = [op |-> "upload_content", course_id |-> course_id,
                            status |-> IF ext.escaped = "none" THEN "ok"
                                       ELSE ext.escaped,
                            called |-> ext.called, up |-> up,
                            row |-> Len(contents) + 1]
     /\ UNCHANGED << cbVars, retryVars, syncVars, moodleVars, tokenVars,
                     schedVars, ccVars >>

\* No content is uploaded.
ContentUnused ==
  /\ contents = << >>
  /\ ct_last = NoUpload

\* No Moodle client is in use.
MoodleUnused ==
  /\ m_req = NoRequest
  /\ m_script = << >>
  /\ m_pc = "unused"
  /\ m_result = [out |-> NoMoodleOutcome, w |-> NewClient(<< >>, FALSE)]
  /\ m_encoded = {}

\* No token manager is in use.
TokenUnused ==
  /\ tokens = << >>
  /\ token_expiry = << >>
  /\ tk_asked = << >>
  /\ tk_last = [op |-> "none", service |-> "", token |-> Absent,
                asked |-> None, at |-> 0, ret |-> NoneStr]

\* No SyncService is in use.
SchedUnused ==
  /\ sync_interval = DefaultInterval
  /\ is_running = FALSE
  /\ stop_event = FALSE
  /\ sync_thread = 0
  /\ last_sync = << >>
  /\ sc_platforms = << >>
  /\ threads = << >>
  /\ c_pc = "unused"
  /\ sc_last = NoOp

\* No sync method is in use.
SyncUnused ==
  /\ s_platform = "moodle"
  /\ s_configured = FALSE
  /\ s_last = NoSync
  /\ s_err = NoErrors
  /\ s_remote = << >>
  /\ s_fresh = FALSE
  /\ RunsUnused
  /\ db = << >>

\* No retry wrapper is in use.
RetryUnused ==
  /\ r_cfg = [max_attempts |-> 0, backoff_factor |-> 0, max_delay |-> 0,
              exponential |-> TRUE, exceptions |-> {}]
  /\ r_script = << >>
  /\ r_pc = "unused"
  /\ r_result = NoResult

\* No circuit breaker is in use.
CircuitUnused ==
  /\ func_name = [f \in Funcs |-> "sync_courses"]
  /\ failure_threshold = [f \in Funcs |-> 1]
  /\ recovery_timeout = [f \in Funcs |-> 1]
  /\ expected_exception = [f \in Funcs |-> "Exception"]
  /\ circuit_breakers = << >>
  /\ cb_last = NoCall
  /\ cb_streak = [n \in Names |-> 0]

(***************************************************************************)
(* Sequential calls of one decorated function.                             *)
(***************************************************************************)
InitCB ==
  LET
      ExpectedChoices ==
                         {"Exception", "HTTPError"}
  IN
  /\ now = 0
  /\ func_name = [f \in Funcs |-> "sync_courses"]
  /\ \E th \in 1..MaxThreshold : failure_threshold = [f \in Funcs |-> th]
  /\ \E rt \in 1..MaxTimeout : recovery_timeout = [f \in Funcs |-> rt]
  /\ \E ex \in ExpectedChoices : expected_exception = [f \in Funcs |-> ex]
  /\ circuit_breakers = << >>
  /\ cb_last = NoCall
  /\ cb_streak = [n \in Names |-> 0]
  /\ RetryUnused
  /\ SyncUnused
  /\ MoodleUnused
  /\ TokenUnused
  /\ SchedUnused
  /\ CallersUnused
  /\ ContentUnused

NextCB ==
  LET
      \* What a wrapped function can do when invoked.
      FuncOutcomes ==
                      {Ret(1)} \cup {Exc(e, "boom", 1) : e \in FuncRaises}
      TickSteps ==
                   {1, DaySeconds}
  IN
  \/ \E fo \in FuncOutcomes : CBCall("f1", fo)
  \/ \E d \in TickSteps : Tick(d)

SpecCB == InitCB /\ [][NextCB]_vars

(***************************************************************************)
(* Sequential calls of two decorated functions of one RetryService, which  *)
(* may carry the same __name__.                                            *)
(***************************************************************************)
InitCB2 ==
  /\ now = 0
  /\ func_name \in {n \in [Funcs -> Names] : n["f1"] = "sync_courses"}
  /\ \E th \in 1..MaxThreshold : failure_threshold = [f \in Funcs |-> th]
  /\ \E rt \in 1..MaxTimeout : recovery_timeout = [f \in Funcs |-> rt]
  /\ expected_exception = [f \in Funcs |-> "Exception"]
  /\ circuit_breakers = << >>
  /\ cb_last = NoCall
  /\ cb_streak = [n \in Names |-> 0]
  /\ RetryUnused
  /\ SyncUnused
  /\ MoodleUnused
  /\ TokenUnused
  /\ SchedUnused
  /\ CallersUnused
  /\ ContentUnused

NextCB2 ==
  LET
      \* What a wrapped function can do when invoked.
      FuncOutcomes ==
                      {Ret(1)} \cup {Exc(e, "boom", 1) : e \in FuncRaises}
      TickSteps ==
                   {1, DaySeconds}
  IN
  \/ \E f \in Funcs, fo \in FuncOutcomes : CBCall(f, fo)
  \/ \E d \in TickSteps : Tick(d)

SpecCB2 == InitCB2 /\ [][NextCB2]_vars

(***************************************************************************)
(* One call of a function decorated with with_retry.                       *)
(***************************************************************************)
InitRetry ==
  LET
      \* The exceptions=... tuples of the model.
      ExceptionSets ==
                       {{"Exception"}, {"RequestException", "ServiceUnavailableError"}}
      \* What the wrapped function does at an invocation.
      ScriptSteps ==
                     {Ret(0), Exc("Timeout", "boom", 0), Exc("ValueError", "boom", 0)}
  IN
  /\ now = 0
  /\ CircuitUnused
  /\ r_cfg \in [max_attempts : 0..MaxAttempts, backoff_factor : 1..MaxBackoff,
                max_delay : 1..MaxDelay, exponential : BOOLEAN,
                exceptions : ExceptionSets]
  /\ r_script \in [1..MaxAttempts -> ScriptSteps]
  /\ r_pc = "ready"
  /\ r_result = NoResult
  /\ SyncUnused
  /\ MoodleUnused
  /\ TokenUnused
  /\ SchedUnused
  /\ CallersUnused
  /\ ContentUnused

NextRetry == RetryCall

SpecRetry == InitRetry /\ [][NextRetry]_vars

(***************************************************************************)
(* Sequential calls of one platform's sync_<platform>_courses.             *)
(***************************************************************************)
InitSync ==
  LET
      \* The course lists a platform holds in the model: none; a course without
      \* its names; a site that is no course, then a course; a course, then a
      \* record without id.
      SyncLists ==
        {<< >>,
         << RemoteCourse(1, Absent, "course") >>,
         << RemoteCourse(1, "A", "other"), RemoteCourse(2, "A", "course") >>,
         << RemoteCourse(1, "A", "course"), RemoteCourse(None, "A", "course") >>}
  IN
  /\ now = 0
  /\ CircuitUnused
  /\ RetryUnused
  /\ s_platform \in Platforms
  /\ s_configured \in BOOLEAN
  /\ s_last = NoSync
  /\ s_err = NoErrors
  /\ s_remote \in SyncLists
  /\ s_fresh = FALSE
  /\ RunsUnused
  /\ db = << >>
  /\ MoodleUnused
  /\ TokenUnused
  /\ SchedUnused
  /\ CallersUnused
  /\ ContentUnused

NextSync ==
  LET
      \* What the remote platform does with the course-list request of one run of
      \* the body: "ok" is an answer that carries the platform's course list,
      \* "api_error" one that carries the platform's own error payload.
      RemoteOutcomes(p) ==
        {"ok", "timeout", "connection_error", "http_5xx"}
          \cup (IF p \in {"moodle", "chamilo"} THEN {"api_error"} ELSE {})
  IN
  LET
      SyncTickSteps ==
                       {SyncRecoveryTimeout - 1, SyncRecoveryTimeout}
  IN
  \/ \E remotes \in RemoteScripts(<< >>, RemoteOutcomes(s_platform)) :
       SyncCall(remotes)
  \/ \E d \in SyncTickSteps : SyncTick(d)

SpecSync == InitSync /\ [][NextSync]_vars

(***************************************************************************)
(* Sequential calls of sync_moodle_courses while Moodle's course list       *)
(* changes between them.                                                   *)
(***************************************************************************)
InitStore ==
  /\ now = 0
  /\ CircuitUnused
  /\ RetryUnused
  /\ s_platform = "moodle"
  /\ s_configured = TRUE
  /\ s_last = NoSync
  /\ s_err = NoErrors
  /\ s_remote = << >>
  /\ s_fresh = FALSE
  /\ RunsUnused
  /\ db = << >>
  /\ MoodleUnused
  /\ TokenUnused
  /\ SchedUnused
  /\ CallersUnused
  /\ ContentUnused

NextStore ==
  LET
      \* The course lists Moodle holds in the model: of courses named A or B,
      \* and of records without id.
      RemoteLists ==
        LET records == {RemoteCourse(id, name, "course") :
                          id \in 1..MaxCourseId, name \in {"A", "B"}}
                         \cup {RemoteCourse(None, "A", "course")}
        IN UNION {[1..n -> records] : n \in 0..MaxCourses}
  IN
  \/ \E remotes \in RemoteScripts(<< >>, {"ok", "timeout"}) : SyncCall(remotes)
  \/ \E courses \in RemoteLists : RemoteChange(courses)

SpecStore == InitStore /\ [][NextStore]_vars

(***************************************************************************)
(* Calls of sync_moodle_courses and of the create-course route on one      *)
(* course table.                                                           *)
(***************************************************************************)
NextCourses ==
  \/ \E remotes \in RemoteScripts(<< >>, {"ok", "timeout"}) : SyncCall(remotes)
  \/ \E course_id \in {<< "custom", 1 >>, CourseKey("moodle", 1)},
        name \in {"A"}, external \in {"created", "empty", "error"} :
       CreateCourseRoute(course_id, name, external)

SpecCourses == InitStore /\ [][NextCourses]_vars

(***************************************************************************)
(* One operation of the Moodle client.                                     *)
(***************************************************************************)
PostChoices(op) ==
  LET
      \* What the POST of a course or enrolment operation does in the model.
      HelperPosts ==
        {PostOutcome("timeout", 0, Absent, Absent, NoData),
         PostOutcome("data", 200, Absent, Absent, [kind |-> "list", n |-> 2]),
         PostOutcome("error", 200, "invalidparameter", "m", NoData)}
      \* What a POST of a notification operation does in the model.
      PopupPosts ==
        {PostOutcome("timeout", 0, Absent, Absent, NoData),
         PostOutcome("data", 200, Absent, Absent, [kind |-> "dict", n |-> 1]),
         PostOutcome("data", 200, Absent, Absent, [kind |-> "int", n |-> 3]),
         PostOutcome("error", 200, "invalidfunction", "m", NoData),
         PostOutcome("error", 200, "servererror", "Function not found", NoData),
         PostOutcome("error", 200, "invalidparameter", "m", NoData)}
      \* What a POST of call() does in the model.
      AllPosts ==
        {PostOutcome(k, 0, Absent, Absent, NoData) :
           k \in {"timeout", "connection_error", "invalid_json"}}
          \cup {PostOutcome("unexpected", 0, Absent, "boom", NoData)}
          \cup {PostOutcome("http_error", st, Absent, Absent, NoData) : st \in {404, 500}}
          \cup {PostOutcome("data", 200, Absent, Absent, d) :
                  d \in {[kind |-> "dict", n |-> 1], [kind |-> "list", n |-> 2],
                          [kind |-> "int", n |-> 3]}}
          \cup {PostOutcome("error", 200, c, m, NoData) :
                  c \in AUTH_ERRORS \cup VALIDATION_ERRORS \cup NOT_FOUND_ERRORS
                          \cup {"invalidfunction", "servererror", Absent},
                  m \in {"m", "Function not found", Absent}}
  IN
  IF op = "call" THEN AllPosts
  ELSE IF op \in {"get_popup_notifications", "get_unread_popup_count"}
  THEN PopupPosts
  ELSE HelperPosts

RECURSIVE Scripts(_, _)
\* The POST outcomes during one operation: one for each POST it makes.
Scripts(req, given) ==
  IF Run(req, given).w.pos <= Len(given)
  THEN {given}
  ELSE UNION {Scripts(req, Append(given, o)) : o \in PostChoices(req.op)}

MoodleRequests ==
  LET
      \* The arguments of encode_params in the model: a dict with the key
      \* courses over a scalar, a list or a dict of at most two levels, and a
      \* dict with the keys active and note over scalars.
      EncoderInputs ==
        LET Scalar(t, b, n, str) == PyVal(t, b, n, str, << >>)
            List(vs) == PyVal("list", FALSE, 0, "", [i \in DOMAIN vs |-> << "", vs[i] >>])
            Dict(kvs) == PyVal("dict", FALSE, 0, "", kvs)
            scalars == {Scalar("bool", TRUE, 0, ""), Scalar("bool", FALSE, 0, ""),
                        Scalar("none", FALSE, 0, ""), Scalar("int", FALSE, 5, ""),
                        Scalar("str", FALSE, 0, "Test"), Scalar("str", FALSE, 0, "TEST")}
            inner == scalars
                       \cup {List(vs) : vs \in UNION {[1..n -> scalars] : n \in 0..1}}
                       \cup {Dict(<< << "fullname", a >>, << "shortname", b >> >>) :
                               a \in scalars, b \in scalars}
            mid == inner \cup {List(<< v >>) : v \in inner}
                     \cup {List(<< v, v >>) : v \in inner}
                     \cup {Dict(<< << "fullname", v >> >>) : v \in inner}
        IN {Dict(<< << "courses", v >> >>) : v \in mid}
             \cup {Dict(<< << "active", a >>, << "note", b >> >>) :
                     a \in scalars, b \in scalars}
  IN
  LET
      \* Enrolments with at most one key that does not hold 5.
      Enrolments ==
        LET
            \* The values an enrolment holds under a key in the model: 5, 0, -1, 1.5,
            \* 0.5, "7", "abc", None, and no value.
            IdValues ==
              {Value("int", 5, FALSE, TRUE), Value("int", 0, FALSE, TRUE),
               Value("int", -1, FALSE, TRUE), Value("float", 1, TRUE, TRUE),
               Value("float", 0, TRUE, TRUE), Value("str", 7, FALSE, TRUE),
               Value("str", 0, FALSE, FALSE), Value("none", 0, FALSE, FALSE),
               Value("missing", 0, FALSE, FALSE)}
        IN
        LET five == Value("int", 5, FALSE, TRUE)
        IN {[[roleid |-> five, userid |-> five, courseid |-> five] EXCEPT ![f] = v] :
              f \in {"roleid", "userid", "courseid"}, v \in IdValues}
  IN
  {[NoRequest EXCEPT !.op = "call", !.fn = f, !.debug = d] :
     f \in {"core_webservice_get_site_info", "core_course_create_courses"},
     d \in BOOLEAN}
    \cup {[NoRequest EXCEPT !.op = "create_course", !.fields = fs] :
            fs \in SUBSET {"fullname", "shortname", "categoryid", "summary"}}
    \cup {[NoRequest EXCEPT !.op = "update_course", !.fields = fs] :
            fs \in SUBSET {"id", "fullname"}}
    \cup {[NoRequest EXCEPT !.op = "enrol_users", !.enrolments = es] :
            es \in UNION {[1..n -> Enrolments] : n \in 0..MaxEnrolments}}
    \cup {[NoRequest EXCEPT !.op = op, !.userid = 7] :
            op \in {"get_popup_notifications", "get_unread_popup_count"}}
    \cup {[NoRequest EXCEPT !.op = "encode_params", !.data = d] :
            d \in EncoderInputs}

InitMoodle ==
  /\ now = 0
  /\ CircuitUnused
  /\ RetryUnused
  /\ SyncUnused
  /\ m_req \in MoodleRequests
  /\ m_script \in Scripts(m_req, << >>)
  /\ m_pc = "ready"
  /\ m_result = [out |-> NoMoodleOutcome, w |-> NewClient(<< >>, FALSE)]
  /\ m_encoded = {}
  /\ TokenUnused
  /\ SchedUnused
  /\ CallersUnused
  /\ ContentUnused

NextMoodle ==
  \/ MoodleOp("call")
  \/ MoodleOp("create_course")
  \/ MoodleOp("update_course")
  \/ MoodleOp("enrol_users")
  \/ MoodleOp("get_popup_notifications")
  \/ MoodleOp("get_unread_popup_count")
  \/ EncodeParams

SpecMoodle == InitMoodle /\ [][NextMoodle]_vars

(***************************************************************************)
(* Calls of the token manager while time passes.                           *)
(***************************************************************************)
InitTokens ==
  /\ now = 0
  /\ CircuitUnused
  /\ RetryUnused
  /\ SyncUnused
  /\ MoodleUnused
  /\ SchedUnused
  /\ tokens = [s \in {"moodle", "canvas"} |-> Absent]
  /\ token_expiry = [s \in {"moodle", "canvas"} |-> None]
  /\ tk_asked = [s \in {"moodle", "canvas"} |-> None]
  /\ tk_last = [op |-> "none", service |-> "", token |-> Absent,
                asked |-> None, at |-> 0, ret |-> NoneStr]
  /\ CallersUnused
  /\ ContentUnused

NextTokens ==
  \/ \E service \in DOMAIN tokens, token \in {"t1", "t2"},
        expires_in \in {None, 1, 2} : StoreToken(service, token, expires_in)
  \/ \E service \in DOMAIN tokens : GetValidToken(service)
  \/ Tick(1)

SpecTokens == InitTokens /\ [][NextTokens]_vars

(***************************************************************************)
(* The SyncService: its public operations called by one thread, and the    *)
(* threads of its loop.                                                    *)
(***************************************************************************)
InitSched ==
  /\ now = 0
  /\ CircuitUnused
  /\ RetryUnused
  /\ SyncUnused
  /\ MoodleUnused
  /\ TokenUnused
  /\ sync_interval = DefaultInterval
  /\ is_running = FALSE
  /\ stop_event = FALSE
  /\ sync_thread = 0
  /\ last_sync = [p \in Platforms |-> FALSE]
  /\ sc_platforms \in {ConfiguredPlatforms(c) :
                         c \in {{}, {"moodle", "chamilo"}}}
  /\ threads = [t \in Threads |-> NoThread]
  /\ c_pc = "idle"
  /\ sc_last = NoOp
  /\ CallersUnused
  /\ ContentUnused

\* start() and stop() called by one thread, and the steps of the loop's
\* threads.
NextLoop ==
  \/ Start(None)
  \/ StopBegin
  \/ StopReturn
  \/ \E t \in Threads : LoopCheck(t)
  \/ \E t \in Threads, returned \in BOOLEAN : SyncStep(t, returned)
  \/ \E t \in Threads : PassEnd(t)
  \/ \E t \in Threads : Escape(t)
  \/ \E t \in Threads : WaitEnd(t)

NextSched ==
  \/ NextLoop
  \/ Start(30)
  \/ \E v \in {MinInterval - 1, MinInterval} : SetSyncInterval(v)
  \/ \E lms_type \in {"moodle", "canvas", "blackboard", NoneStr},
        failing \in {{}, {"moodle"}, Platforms} :
       ForceSync(lms_type, [p \in Platforms |-> p \notin failing])

SpecSched == InitSched /\ [][NextSched]_vars

\* Every thread of the loop keeps running, every sync it calls returns or
\* raises, and every wait ends.
SpecSchedFair ==
  /\ InitSched
  /\ [][NextLoop]_vars
  /\ \A t \in Threads :
       /\ WF_vars(LoopCheck(t))
       /\ WF_vars(\E returned \in BOOLEAN : SyncStep(t, returned))
       /\ WF_vars(PassEnd(t))
       /\ WF_vars(WaitEnd(t))

(***************************************************************************)
(* One decorated function called by several threads: the calls overlap in  *)
(* SpecCallers and follow one another in SpecCallersSeq.                   *)
(***************************************************************************)
InitCallers ==
  /\ now = 0
  /\ func_name = [f \in Funcs |-> "sync_courses"]
  /\ \E th \in 1..MaxThreshold : failure_threshold = [f \in Funcs |-> th]
  /\ recovery_timeout = [f \in Funcs |-> 1]
  /\ expected_exception = [f \in Funcs |-> "Exception"]
  /\ circuit_breakers = << >>
  /\ cb_last = NoCall
  /\ cb_streak = [n \in Names |-> 0]
  /\ RetryUnused
  /\ SyncUnused
  /\ MoodleUnused
  /\ TokenUnused
  /\ SchedUnused
  /\ cc_obj = [t \in Threads |-> NewCircuit]
  /\ cc_key = 0
  /\ callers = [t \in Threads |-> NoCaller]
  /\ cc_streak = 0
  /\ ContentUnused

\* What the steps of a call do after its entry; time passes.
CallerSteps ==
  \/ \E t \in Threads :
       \E fo \in {Ret(1), Exc("ServiceUnavailableError", "boom", 1),
                   Exc("KeyboardInterrupt", "boom", 1)} : WrapperSettle(t, fo)
  \/ \E t \in Threads : WrapperStore(t)
  \/ Tick(1)

NextCallers ==
  \/ \E t \in Threads : WrapperEnter(t)
  \/ CallerSteps

NextCallersSeq ==
  \/ \E t \in Threads :
       /\ \A u \in Threads : callers[u].pc = "idle"
       /\ WrapperEnter(t)
  \/ CallerSteps

SpecCallers == InitCallers /\ [][NextCallers]_vars

SpecCallersSeq == InitCallers /\ [][NextCallersSeq]_vars

(***************************************************************************)
(* Content uploads to a local course, to courses linked to Moodle, Canvas  *)
(* and Sakai, to a Moodle course without external id and to a course that  *)
(* does not exist.                                                         *)
(***************************************************************************)
InitContent ==
  /\ now = 0
  /\ CircuitUnused
  /\ RetryUnused
  /\ s_platform = "moodle"
  /\ s_configured = TRUE
  /\ s_last = NoSync
  /\ s_err = NoErrors
  /\ s_remote = << >>
  /\ s_fresh = FALSE
  /\ RunsUnused
  /\ db = << [course_id |-> << "custom", 1 >>, name |-> "A",
              lms |-> "local", external_id |-> None],
             [course_id |-> CourseKey("moodle", 1), name |-> "A",
              lms |-> "moodle", external_id |-> 1],
             [course_id |-> CourseKey("canvas", 1), name |-> "A",
              lms |-> "canvas", external_id |-> 1],
             [course_id |-> CourseKey("sakai", 1), name |-> "A",
              lms |-> "sakai", external_id |-> 1],
             [course_id |-> << "custom", 2 >>, name |-> "A",
              lms |-> "moodle", external_id |-> None] >>
  /\ MoodleUnused
  /\ TokenUnused
  /\ SchedUnused
  /\ CallersUnused
  /\ contents = << >>
  /\ ct_last = NoUpload

NextContent ==
  \E course_id \in {db[j].course_id : j \in 1..Len(db)}
                      \cup {<< "custom", 3 >>},
     up \in {Returned(id) : id \in {None, 7}}
              \cup {Raised(type) : type \in {"Exception", "Timeout", "KeyError",
                                             "KeyboardInterrupt"}} :
    UploadContent(course_id, up)

SpecContent == InitContent /\ [][NextContent]_vars

(***************************************************************************)
(* Overlapping syncs of one platform against one remote course list: a     *)
(* list of two courses, one that names a course twice, one whose first     *)
(* record is no course of Sakai, one whose second record has no id; the    *)
(* local table is empty or holds the first course from an earlier sync.    *)
(***************************************************************************)
InitRuns ==
  LET
      RunLists ==
        {<< RemoteCourse(1, "A", "course"), RemoteCourse(2, "A", "course") >>,
         << RemoteCourse(1, "A", "course"), RemoteCourse(1, "B", "course") >>,
         << RemoteCourse(1, "A", "other"), RemoteCourse(2, "A", "course") >>,
         << RemoteCourse(1, "A", "course"), RemoteCourse(None, "A", "course") >>}
  IN
  /\ now = 0
  /\ CircuitUnused
  /\ RetryUnused
  /\ s_platform \in Platforms
  /\ s_configured \in BOOLEAN
  /\ s_last = NoSync
  /\ s_err = NoErrors
  /\ s_remote \in RunLists
  /\ s_fresh = FALSE
  /\ RunsUnused
  /\ db \in {<< >>, << Row(s_platform, RemoteCourse(1, "old", "course")) >>}
  /\ MoodleUnused
  /\ TokenUnused
  /\ SchedUnused
  /\ CallersUnused
  /\ ContentUnused

NextRuns ==
  \E r \in Runs :
    \/ \E remote \in {"ok", "timeout"} : RunBegin(r, remote)
    \/ RunStep(r)
    \/ RunCommit(r)

SpecRuns == InitRuns /\ [][NextRuns]_vars



(***************************************************************************)
(* Circuit breaker properties.                                             *)
(***************************************************************************)
Called == cb_last.kind # "none"
LastName == func_name[cb_last.func]
LastCircuit == Circuit(circuit_breakers, LastName)
LastThreshold == failure_threshold[cb_last.func]
LastTimeout == recovery_timeout[cb_last.func]
\* Seconds from the last recorded failure to the last call.
Elapsed == cb_last.at - cb_last.pre.last_failure_time

\* C1: once the wrapped calls have failed failure_threshold times in a row
\* the circuit is open, and a call that finds it open before recovery_timeout
\* has elapsed gets the fail-fast error and does not invoke the function;
\* with fewer failures in a row the circuit is closed, a success in the
\* closed state leaving the failure count at 0.
C1_OpensAtThreshold ==
  Called =>
    /\ (cb_last.kind = "raised" /\ cb_streak[LastName] >= LastThreshold)
          => LastCircuit.state = "open"
    /\ (cb_last.pre.state = "open" /\ Elapsed < LastTimeout)
          => /\ cb_last.kind = "rejected"
             /\ ~cb_last.invoked
    /\ cb_streak[LastName] < LastThreshold => LastCircuit.state = "closed"
    /\ (cb_last.kind = "returned" /\ cb_last.pre.state = "closed")
          => LastCircuit.failures = 0

C1_Witness ==
  /\ cb_last.kind = "rejected"
  /\ cb_last.pre.state = "open"
  /\ LastThreshold = MaxThreshold
  /\ cb_streak[LastName] = LastThreshold
  /\ Elapsed > 0
  /\ Elapsed < LastTimeout

\* C2: a call that finds the circuit open moves it to half_open and invokes
\* the function whenever at least recovery_timeout seconds have passed since
\* the last recorded failure, however many, and is rejected otherwise.
C2_RecoversAfterAnyTimeout ==
  (Called /\ cb_last.pre.state = "open") =>
    IF Elapsed >= LastTimeout
    THEN cb_last.trial /\ cb_last.invoked
    ELSE cb_last.kind = "rejected"

\* C3: the call made in half_open settles the circuit: a success leaves it
\* closed with no failures and no last-failure time; a failure the breaker
\* expects leaves it open with the last-failure time at that call, and a
\* call that finds the circuit open is let through only once
\* recovery_timeout has passed since then.
C3_TrialResolves ==
  Called =>
    /\ (cb_last.trial /\ cb_last.kind = "returned") => LastCircuit = NewCircuit
    /\ (cb_last.trial /\ cb_last.kind = "raised")
          => /\ LastCircuit.state = "open"
             /\ LastCircuit.last_failure_time = cb_last.at
    /\ (cb_last.pre.state = "open" /\ cb_last.invoked) => Elapsed >= LastTimeout

C3_Witness ==
  /\ cb_last.trial
  /\ cb_last.kind = "raised"
  /\ cb_last.pre.state = "open"
  /\ cb_last.at > cb_last.pre.last_failure_time
  /\ LastCircuit.last_failure_time = cb_last.at

\* C4: a call rejected because the circuit is open does not invoke the
\* function and leaves state, failures and last_failure_time as they were.
C4_RejectedCallChangesNothing ==
  cb_last.kind = "rejected" =>
    /\ ~cb_last.invoked
    /\ LastCircuit = cb_last.pre

C4_Witness ==
  /\ cb_last.kind = "rejected"
  /\ cb_last.at > cb_last.pre.last_failure_time
  /\ LastCircuit = cb_last.pre

\* C5: a call of one decorated function leaves the circuit that governs
\* every other decorated function as it was.
C5_OneCircuitPerFunction ==
  [][\A f \in Funcs, g \in Funcs :
       (f # g /\ cb_last' # cb_last /\ cb_last'.func = f)
         => Circuit(circuit_breakers', func_name[g])
              = Circuit(circuit_breakers, func_name[g])]_vars

(***************************************************************************)
(* Retry decorator properties.                                             *)
(***************************************************************************)
Done == r_pc = "done"
\* The function's i-th invocation raises an exception of the configured set.
MatchingFailure(i) ==
  /\ r_script[i].raised
  /\ Matches(r_script[i].type, r_cfg.exceptions)

\* C7: for max_attempts >= 1 and k < max_attempts, a function whose first k
\* invocations raise a matching exception and whose next one succeeds is
\* invoked exactly k + 1 times, and the wrapper returns that success value.
C7_SucceedsAfterFailures ==
  Done =>
    \A k \in 0..(r_cfg.max_attempts - 1) :
      ((\A i \in 1..k : MatchingFailure(i)) /\ ~r_script[k + 1].raised)
        => /\ r_result.w.calls = k + 1
           /\ r_result.out = Ret(k + 1)

C7_Witness ==
  /\ Done
  /\ r_cfg.max_attempts = 3
  /\ MatchingFailure(1)
  /\ MatchingFailure(2)
  /\ ~r_script[3].raised
  /\ r_result.w.calls = 3
  /\ r_result.out = Ret(3)

\* C8: for max_attempts >= 1, when every invocation raises a matching
\* exception the function is invoked exactly max_attempts times and the
\* wrapper raises the exception object of the last invocation.
C8_RaisesLastException ==
  (Done /\ r_cfg.max_attempts >= 1
        /\ \A i \in 1..r_cfg.max_attempts : MatchingFailure(i))
    => /\ r_result.w.calls = r_cfg.max_attempts
       /\ r_result.out = Stamp(r_script[r_cfg.max_attempts], r_cfg.max_attempts)

C8_Witness ==
  /\ Done
  /\ r_cfg.max_attempts = 3
  /\ \A i \in 1..3 : MatchingFailure(i)
  /\ r_script[1].type # r_script[3].type
  /\ r_result.out.raised
  /\ r_result.out.inv = 3
  /\ r_result.out.type = r_script[3].type

\* C9: the wrapper sleeps only between two attempts, once, and the sleep
\* after failed attempt i lasts min(backoff_factor * 2^i, max_delay) when
\* exponential and min(backoff_factor * (i + 1), max_delay) otherwise;
\* nothing is slept after the last attempt or after a success.
C9_DelayBetweenAttempts ==
  Done =>
    LET log == r_result.log
        want(i) == IF r_cfg.exponential
                   THEN r_cfg.backoff_factor * 2^i
                   ELSE r_cfg.backoff_factor * (i + 1)
        capped(i) == IF want(i) <= r_cfg.max_delay
                     THEN want(i) ELSE r_cfg.max_delay
    IN \A j \in 1..Len(log) :
         /\ log[j].ev = "sleep"
              => /\ j > 1
                 /\ j < Len(log)
                 /\ log[j - 1].ev = "attempt"
                 /\ log[j + 1].ev = "attempt"
                 /\ log[j].arg = capped(log[j - 1].arg)
         /\ log[j].ev = "attempt"
              => /\ log[j].arg = (j - 1) \div 2
                 /\ j < Len(log) => log[j + 1].ev = "sleep"

C9_Witness ==
  /\ Done
  /\ r_cfg.exponential
  /\ r_cfg.max_attempts = 3
  /\ Len(r_result.log) = 5
  /\ r_result.log[2].arg = r_cfg.backoff_factor
  /\ r_result.log[4].arg = r_cfg.max_delay
  /\ r_cfg.backoff_factor * 2 > r_cfg.max_delay
  /\ r_result.out.raised

\* C10: an exception outside the configured set reaches the caller from the
\* invocation that raised it: the function is not invoked again and nothing
\* is slept after it, whatever attempts remain.
C10_OtherExceptionPropagates ==
  Done =>
    \A j \in 1..r_cfg.max_attempts :
      (/\ r_script[j].raised
       /\ ~Matches(r_script[j].type, r_cfg.exceptions)
       /\ \A i \in 1..(j - 1) : MatchingFailure(i))
        => /\ r_result.out = Stamp(r_script[j], j)
           /\ r_result.w.calls = j
           /\ Len(r_result.log) = 2 * j - 1
           /\ r_result.log[Len(r_result.log)].ev = "attempt"

C10_Witness ==
  /\ Done
  /\ r_cfg.max_attempts = 3
  /\ MatchingFailure(1)
  /\ r_script[2].raised
  /\ ~Matches(r_script[2].type, r_cfg.exceptions)
  /\ r_result.out = Stamp(r_script[2], 2)
  /\ r_result.w.calls = 2

(***************************************************************************)
(* Sync operation properties.                                              *)
(***************************************************************************)
\* C6: the error a caller of sync_<platform>_courses gets from an open
\* circuit differs in its class from the error a caller gets when the
\* platform answers with an HTTP 5xx.
C6_OpenCircuitErrorHasOwnClass ==
  (s_err.open # NoOutcome /\ s_err.http5xx # NoOutcome)
    => s_err.open.type # s_err.http5xx.type

\* The last call found the circuit open with less than the recovery timeout
\* passed since the last recorded failure.
FoundOpen ==
  /\ s_last.out # NoOutcome
  /\ s_last.pre.state = "open"
  /\ s_last.at - s_last.pre.last_failure_time < SyncRecoveryTimeout

\* C11: a call of sync_<platform>_courses that finds its circuit open gets
\* the fail-fast error from one single attempt: the body is not invoked, the
\* retry layer sleeps no delay and makes no second attempt.
C11_OpenCircuitOneFailFast ==
  FoundOpen =>
    /\ s_last.out = CircuitOpenError
    /\ s_last.calls = 0
    /\ s_last.kinds = << "rejected" >>
    /\ s_last.log = << [ev |-> "attempt", arg |-> 0] >>

C11_Witness ==
  /\ FoundOpen
  /\ s_last.at > s_last.pre.last_failure_time
  /\ s_last.out = CircuitOpenError
  /\ s_last.kinds = << "rejected" >>

\* The remote failures that are transient: a timeout, a connection error,
\* an HTTP 5xx answer.
TransientRemotes == {"timeout", "connection_error", "http_5xx"}

\* C12: when a call that found the circuit closed with no failure recorded
\* ends with a transient failure of the remote fetch reaching the caller,
\* the fetch has been attempted 3 times, with delays of 2 and 4 seconds
\* between the attempts.
C12_TransientFailureRetried ==
  (/\ s_last.out # NoOutcome
   /\ s_last.out.raised
   /\ s_last.pre = NewCircuit
   /\ s_last.remote \in TransientRemotes)
    => /\ s_last.calls = SyncMaxAttempts
       /\ s_last.log = << [ev |-> "attempt", arg |-> 0],
                          [ev |-> "sleep", arg |-> 2],
                          [ev |-> "attempt", arg |-> 1],
                          [ev |-> "sleep", arg |-> 4],
                          [ev |-> "attempt", arg |-> 2] >>

(***************************************************************************)
(* Moodle client properties.                                               *)
(***************************************************************************)
MoodleDone == m_pc = "done"
Posts == m_result.w.posts
Calls == m_result.w.calls
\* The operation raised MoodleValidationError without any call or POST.
RejectedLocally ==
  /\ m_result.out.raised
  /\ m_result.out.type = "MoodleValidationError"
  /\ Calls = << >>
  /\ Posts = << >>

\* C13: an operation that calls a function outside the idempotent allow-list
\* makes exactly one POST whatever the POST does, and when that POST times
\* out or cannot connect the caller gets a MoodleError and nothing is slept.
C13_NonIdempotentSinglePost ==
  (/\ MoodleDone
   /\ Calls # << >>
   /\ \A i \in 1..Len(Calls) : Calls[i].fn \notin IDEMPOTENT_FUNCTIONS)
    => /\ Len(Posts) = 1
       /\ Len(Calls) = 1
       /\ m_script[1].kind \in {"timeout", "connection_error"}
            => /\ m_result.out.raised
               /\ IsSubclass(m_result.out.type, "MoodleError")
               /\ m_result.out.status_code \in {503, 504}
               /\ m_result.w.sleeps = << >>

C13_Witness ==
  /\ MoodleDone
  /\ m_req.op = "call"
  /\ m_req.fn = "core_course_create_courses"
  /\ m_script[1].kind = "timeout"
  /\ Len(Posts) = 1
  /\ m_result.out.type = "MoodleError"
  /\ m_result.out.status_code = 504

\* C14: a call of an allow-listed function whose first k POSTs (k <= 2)
\* time out or cannot connect and whose next POST is answered with data
\* makes k + 1 POSTs and returns that data; when the first 3 POSTs fail so
\* it makes 3 POSTs and raises the error of the third (504 for a timeout,
\* 503 for a connection error); it waits 100 ms and then 200 ms between
\* POSTs and never after the last.
C14_IdempotentRetries ==
  (MoodleDone /\ m_req.op = "call" /\ m_req.fn \in IDEMPOTENT_FUNCTIONS) =>
    LET failed(i) == m_script[i].kind \in {"timeout", "connection_error"}
        n == Len(m_script)
    IN /\ (/\ \A i \in 1..(n - 1) : failed(i)
           /\ m_script[n].kind = "data")
            => /\ n <= 3
               /\ Len(Posts) = n
               /\ m_result.out = MoodleRet(m_script[n].data)
               /\ m_result.w.sleeps = SubSeq(<< 100, 200 >>, 1, n - 1)
       /\ (\A i \in 1..n : failed(i))
            => /\ n = 3
               /\ Len(Posts) = 3
               /\ m_result.out.raised
               /\ m_result.out.type = "MoodleError"
               /\ m_result.out.status_code
                    = IF m_script[3].kind = "timeout" THEN 504 ELSE 503
               /\ m_result.w.sleeps = << 100, 200 >>

C14_Witness ==
  /\ MoodleDone
  /\ m_req.op = "call"
  /\ m_req.fn \in IDEMPOTENT_FUNCTIONS
  /\ Len(m_script) = 3
  /\ m_script[1].kind = "timeout"
  /\ m_script[2].kind = "timeout"
  /\ m_script[3].kind = "connection_error"
  /\ m_result.out.status_code = 503
  /\ m_result.w.sleeps = << 100, 200 >>

\* C15: when the answer that ends a call is Moodle's error document, the
\* caller gets one error whose class and status follow from the errorcode:
\* invalidtoken AuthError 401; accessexception, nopermissions, notloggedin
\* AuthError 403; invalidparameter, missingparam, invalidrecord
\* ValidationError 400; invaliduser, invalidcourse, coursenotexist
\* NotFoundError 404; any other or no errorcode the generic error 500; and
\* the error carries the errorcode of the document.
C15_ErrorNormalization ==
  (/\ MoodleDone
   /\ m_req.op = "call"
   /\ m_script # << >>
   /\ m_script[Len(m_script)].kind = "error")
    => LET code == m_script[Len(m_script)].errorcode
           e == m_result.out
           is(type, status) == e.type = type /\ e.status_code = status
       IN /\ e.raised
          /\ code = "invalidtoken" => is("MoodleAuthError", 401)
          /\ code \in {"accessexception", "nopermissions", "notloggedin"}
               => is("MoodleAuthError", 403)
          /\ code \in {"invalidparameter", "missingparam", "invalidrecord"}
               => is("MoodleValidationError", 400)
          /\ code \in {"invaliduser", "invalidcourse", "coursenotexist"}
               => is("MoodleNotFoundError", 404)
          /\ code \notin {"invalidtoken", "accessexception", "nopermissions",
                          "notloggedin", "invalidparameter", "missingparam",
                          "invalidrecord", "invaliduser", "invalidcourse",
                          "coursenotexist"}
               => is("MoodleError", 500)
          /\ code # Absent => e.error_code = code

C15_Witness ==
  /\ MoodleDone
  /\ m_req.op = "call"
  /\ Len(m_script) = 1
  /\ m_script[1].kind = "error"
  /\ m_script[1].errorcode = "nopermissions"
  /\ m_result.out.type = "MoodleAuthError"
  /\ m_result.out.status_code = 403
  /\ m_result.out.error_code = "nopermissions"

\* The value is a positive integer: an integer above 0, written as an int,
\* as a float without fractional part or as a decimal literal.
PositiveInteger(v) ==
  /\ v.t \in {"int", "float", "str"}
  /\ v.numeric
  /\ ~v.frac
  /\ v.n > 0

\* C17: create_course without fullname, shortname or categoryid,
\* update_course without id, and enrol_users with an entry in which roleid,
\* userid or courseid is missing or is not a positive integer raise
\* MoodleValidationError and make no call of the remote; enrol_users with
\* an empty list returns and makes no call of the remote.
C17_HelpersValidateFirst ==
  MoodleDone =>
    /\ (/\ m_req.op = "create_course"
        /\ ~({"fullname", "shortname", "categoryid"} \subseteq m_req.fields))
         => RejectedLocally
    /\ (m_req.op = "update_course" /\ "id" \notin m_req.fields)
         => RejectedLocally
    /\ (/\ m_req.op = "enrol_users"
        /\ \E i \in 1..Len(m_req.enrolments) :
             \E f \in {"roleid", "userid", "courseid"} :
               ~PositiveInteger(m_req.enrolments[i][f]))
         => RejectedLocally
    /\ (m_req.op = "enrol_users" /\ m_req.enrolments = << >>)
         => /\ ~m_result.out.raised
            /\ Calls = << >>
            /\ Posts = << >>

\* The error says that the remote function is not available.
ReportsUnavailable(e) ==
  /\ e.raised
  /\ \/ e.error_code = "invalidfunction"
     \/ \E i \in 1..Len(e.msg) :
          e.msg[i] \in {"Function not found", "function not found"}

\* C18: get_popup_notifications calls
\* core_message_get_popup_notifications, with the user id under userid, once
\* when its primary call failed with a function-unavailable error, and the
\* caller gets what that call gives; after any other outcome of the primary
\* call it makes no further call and the caller gets that outcome; and
\* get_unread_popup_count, when its primary call fails with a
\* function-unavailable error, goes on to get_popup_notifications.
C18_NotificationFallback ==
  MoodleDone =>
    /\ m_req.op = "get_popup_notifications"
         => /\ Calls[1].fn = "message_popup_get_popup_notifications"
            /\ IF ReportsUnavailable(Calls[1].out)
               THEN /\ Len(Calls) = 2
                    /\ Calls[2].fn = "core_message_get_popup_notifications"
                    /\ << "userid", m_req.userid >> \in Calls[2].params
                    /\ m_result.out = Calls[2].out
               ELSE /\ Len(Calls) = 1
                    /\ m_result.out = Calls[1].out
    /\ (/\ m_req.op = "get_unread_popup_count"
        /\ ReportsUnavailable(Calls[1].out))
         => /\ Len(Calls) >= 2
            /\ Calls[2].fn = "message_popup_get_popup_notifications"
            /\ << "useridto", m_req.userid >> \in Calls[2].params

C18_Witness ==
  /\ MoodleDone
  /\ m_req.op = "get_popup_notifications"
  /\ Len(Calls) = 2
  /\ Calls[1].out.error_code = "invalidfunction"
  /\ Calls[2].fn = "core_message_get_popup_notifications"
  /\ << "userid", 7 >> \in Calls[2].params
  /\ ~m_result.out.raised

(***************************************************************************)
(* Sync operation properties: the log and the course rows.                 *)
(***************************************************************************)
\* C16: no log line of the Moodle sync holds the Moodle token.
C16_TokenNeverLogged ==
  s_platform = "moodle" =>
    \A i \in 1..Len(s_last.logs) :
      \A j \in 1..Len(s_last.logs[i]) :
        \A k \in 1..Len(s_last.logs[i][j]) :
          s_last.logs[i][j][k] # Credential["moodle"]

\* C19: every run of sync_moodle_courses that succeeds reports synced +
\* updated = total_processed and leaves exactly one row keyed moodle_<id>
\* for each course of the remote list; a run that succeeds after a run that
\* succeeded against the same list reports synced = 0 and updated =
\* total_processed.
C19_SyncIdempotent ==
  [][(s_platform = "moodle" /\ s_last' # s_last /\ ~s_last'.out.raised)
       => /\ s_last'.counts.synced + s_last'.counts.updated
               = s_last'.counts.total_processed
          /\ s_last'.counts.total_processed = Len(s_remote)
          /\ \A i \in 1..Len(s_remote) :
               Cardinality({j \in 1..Len(db') :
                              db'[j].course_id = << "moodle", s_remote[i].id >>})
                 = 1
          /\ (s_fresh /\ s_last.out # NoOutcome /\ ~s_last.out.raised)
               => /\ s_last'.counts.synced = 0
                  /\ s_last'.counts.updated = s_last'.counts.total_processed]_vars

C19_Witness ==
  /\ s_platform = "moodle"
  /\ s_fresh
  /\ ~s_last.out.raised
  /\ Len(s_remote) = 2
  /\ s_remote[1].id # s_remote[2].id
  /\ Len(db) = 2
  /\ s_last.counts = [synced |-> 0, updated |-> 2, total_processed |-> 2]

\* C20: a call of sync_<platform>_courses in which the processing of a
\* remote course raises leaves the committed rows as they were before the
\* call, and the caller gets the exception that the processing raised.
C20_SyncAllOrNothing ==
  [][s_last'.failed_at # 0
       => /\ db' = db
          /\ s_last'.out.raised
          /\ s_last'.out.type = "KeyError"]_vars

C20_Witness ==
  /\ s_last.failed_at = 2
  /\ s_last.out.type = "KeyError"
  /\ s_remote[1].id = 1
  /\ s_remote[2].id = None
  /\ db = << >>

\* C21: when the course-list request of a call of sync_moodle_courses times
\* out, the caller gets the exception that the request raised (a Timeout)
\* and the number of local course rows is what it was before the call.
C21_TimeoutPropagatesUnmodified ==
  [][(s_last' # s_last /\ s_last'.remote = "timeout")
       => /\ s_last'.out.raised
          /\ s_last'.out.type = FetchRaises("timeout")
          /\ Len(db') = Len(db)]_vars

\* C22: no two local course rows of an external platform carry the same
\* platform and the same external id.
C22_ExternalIdUnique ==
  \A i, j \in 1..Len(db) :
    (i # j /\ db[i].lms \in Platforms /\ db[i].external_id # None)
      => ~(db[i].lms = db[j].lms /\ db[i].external_id = db[j].external_id)

(***************************************************************************)
(* Parameter encoder properties.                                           *)
(***************************************************************************)
RECURSIVE Leaves(_, _)
\* The scalar leaves of obj with the path of keys and list positions that
\* leads to each.
Leaves(obj, path) ==
  IF obj.t \in {"dict", "list"}
  THEN UNION {Leaves(obj.items[i][2],
                     Append(path, IF obj.t = "dict" THEN obj.items[i][1]
                                  ELSE ToString(i - 1))) :
                i \in 1..Len(obj.items)}
  ELSE {<< path, obj >>}

\* k1[k2]...[kn]
BracketedKey(path) ==
  [j \in 1..(3 * Len(path) - 2) |->
     IF j = 1 THEN path[1]
     ELSE IF j % 3 = 2 THEN "["
     ELSE IF j % 3 = 0 THEN path[(j \div 3) + 1]
     ELSE "]"]

EncodeDone == m_pc = "done" /\ m_req.op = "encode_params"

CoursesExample ==
  PyVal("dict", FALSE, 0, "",
        << << "courses",
              PyVal("list", FALSE, 0, "",
                    << << "",
                          PyVal("dict", FALSE, 0, "",
                                << << "fullname",
                                      PyVal("str", FALSE, 0, "Test", << >>) >>,
                                   << "shortname",
                                      PyVal("str", FALSE, 0, "TEST", << >>) >> >>)
                       >> >>) >> >>)

ActiveExample ==
  PyVal("dict", FALSE, 0, "",
        << << "active", PyVal("bool", TRUE, 0, "", << >>) >>,
           << "note", PyVal("none", FALSE, 0, "", << >>) >> >>)

C23_GetValidToken ==
  tk_last.op = "get" =>
    LET present == tk_last.token # Absent
        reached == tk_last.asked # None /\ tk_last.at >= tk_last.asked
    IN /\ ~present => tk_last.ret = NoneStr
       /\ (present /\ ~reached) => tk_last.ret = tk_last.token
       /\ (present /\ reached)
            => /\ tk_last.ret = NoneStr
               /\ tokens[tk_last.service] = Absent
               /\ token_expiry[tk_last.service] = None

(***************************************************************************)
(* Scheduler properties.                                                   *)
(***************************************************************************)
\* The threads that are executing _sync_loop.
Alive == {t \in Threads : threads[t].pc \notin {"none", "exited"}}

\* C25: a pass of _perform_sync that ends has invoked the sync of every
\* configured platform once, in order, and has set last_sync for exactly
\* the platforms whose sync returned; a sync that returns sets the
\* last_sync of its platform only, and a sync that raises leaves last_sync
\* as it was.
C25_PassSyncsEveryPlatform ==
  [][\A t \in Threads :
       /\ (threads[t].pc = "perform" /\ threads'[t].pc = "wait")
            => /\ Len(threads[t].calls) = Len(sc_platforms)
               /\ \A i \in 1..Len(sc_platforms) :
                    threads[t].calls[i][1] = sc_platforms[i]
               /\ threads[t].stamped =
                    {sc_platforms[i] : i \in {j \in 1..Len(sc_platforms) :
                                                threads[t].calls[j][2]}}
       /\ (threads[t].pc = "perform" /\ threads'[t].pc = "perform"
             /\ threads'[t].calls # threads[t].calls)
            => LET c == threads'[t].calls[Len(threads'[t].calls)]
               IN IF c[2]
                  THEN last_sync' = [last_sync EXCEPT ![c[1]] = TRUE]
                  ELSE last_sync' = last_sync]_vars

C25_Witness ==
  /\ threads[1].pc = "wait"
  /\ threads[1].calls = << << "moodle", FALSE >>, << "chamilo", TRUE >> >>
  /\ ~last_sync["moodle"]
  /\ last_sync["chamilo"]

\* C26: set_sync_interval(v) with v < 60 raises a ValueError and leaves
\* sync_interval as it was; with v >= 60 it sets sync_interval to v and
\* changes nothing else of the service.
C26_SetSyncIntervalFloor ==
  [][(sc_last' # sc_last /\ sc_last'.op = "set_sync_interval")
       => IF sc_last'.v < 60
          THEN /\ sc_last'.raised
               /\ sc_last'.type = "ValueError"
               /\ sync_interval' = sync_interval
          ELSE /\ ~sc_last'.raised
               /\ sync_interval' = sc_last'.v
               /\ UNCHANGED << is_running, stop_event, sync_thread, last_sync,
                               sc_platforms, threads, c_pc >>]_vars

C26_Witness ==
  /\ sc_last.op = "set_sync_interval"
  /\ sc_last.v = 60
  /\ ~sc_last.raised
  /\ sync_interval = 60
  /\ is_running

\* C27: the sync interval of the service is at least 60 seconds in every
\* reachable state.
C27_IntervalAtLeastMinimum == sync_interval >= 60

\* C28: at most one thread is executing _sync_loop.
C28_SingleLoopThread == Cardinality(Alive) <= 1

\* C29: once the stop event is set, no thread enters a new sync pass while
\* it stays set, and unless a start() clears it every thread of the loop
\* ends.
C29_StopEndsLoop ==
  /\ [][\A t \in Threads :
          (stop_event /\ threads[t].pc = "check")
            => threads'[t].pc # "perform"]_vars
  /\ [](stop_event => <>(Alive = {} \/ ~stop_event))

C29_Witness ==
  /\ stop_event
  /\ ~is_running
  /\ c_pc = "idle"
  /\ threads[1].pc = "exited"
  /\ Alive = {}

\* C30: an exception that escapes _perform_sync sends the thread into a
\* wait of 60 seconds, not out of the loop, and every thread of the loop
\* starts a sync pass again unless the stop event gets set.
C30_LoopSurvivesException ==
  /\ [][\A t \in Threads :
          (threads[t].pc = "perform" /\ threads'[t].pc \notin {"perform", "wait"})
            => /\ threads'[t].pc = "backoff"
               /\ threads'[t].timeout = 60]_vars
  /\ \A t \in Threads :
       [](t \in Alive
            => <>(\/ threads[t].pc = "perform" /\ threads[t].calls = << >>
                  \/ stop_event))

C30_Witness ==
  /\ threads[1].pc = "backoff"
  /\ threads[1].timeout = 60
  /\ ~stop_event
  /\ is_running

(***************************************************************************)
(* C31: force_sync(p) for a supported platform p invokes the sync of p and *)
(* no other sync, once; when that sync returns, force_sync returns its     *)
(* result and last_sync[p] is set; when it raises, force_sync raises and   *)
(* last_sync is as before.  For a platform name that is not supported      *)
(* force_sync raises ValueError, invokes no sync and leaves last_sync as   *)
(* before.  A step of the caller that leaves it idle and the threads alone *)
(* and after which the last operation is force_sync is a force_sync.       *)
(***************************************************************************)
C31_ForceSyncOnePlatform ==
  [][(/\ c_pc = "idle" /\ c_pc' = "idle" /\ threads' = threads
      /\ sc_last'.op = "force_sync"
      /\ sc_last'.p \notin {NoneStr, ""})
     => LET o == sc_last'
        IN IF o.p \in Platforms
           THEN /\ Len(o.calls) = 1
                /\ o.calls[1][1] = o.p
                /\ o.raised = ~o.calls[1][2]
                /\ IF o.raised
                   THEN o.ret = "none" /\ last_sync' = last_sync
                   ELSE /\ o.ret = "sync_result"
                        /\ last_sync' = [last_sync EXCEPT ![o.p] = TRUE]
           ELSE /\ o.raised /\ o.type = "ValueError"
                /\ o.calls = << >>
                /\ last_sync' = last_sync]_vars

\* force_sync("moodle") failed while moodle was never synced and a loop
\* thread is in the middle of its pass.
C31_Witness ==
  /\ sc_last.op = "force_sync" /\ sc_last.p = "moodle" /\ sc_last.raised
  /\ ~last_sync["moodle"]
  /\ \E t \in Threads : threads[t].pc = "perform"

(***************************************************************************)
(* C40: force_sync() without a platform returns the success status after   *)
(* a pass that called the sync of every configured platform, whichever of  *)
(* these syncs raised: no failure of a platform is raised to the caller or *)
(* shown in the result.                                                    *)
(***************************************************************************)
C40_ForceSyncAllReportsSuccess ==
  (sc_last.op = "force_sync" /\ sc_last.p = NoneStr)
  => /\ ~sc_last.raised
     /\ sc_last.ret = "all_synced"
     /\ Len(sc_last.calls) = Len(sc_platforms)
     /\ \A i \in 1..Len(sc_platforms) : sc_last.calls[i][1] = sc_platforms[i]

\* force_sync() returned after the syncs of two configured platforms both
\* raised.
C40_Witness ==
  /\ sc_last.op = "force_sync" /\ sc_last.p = NoneStr
  /\ sc_last.ret = "all_synced"
  /\ Len(sc_last.calls) = 2
  /\ \A i \in 1..2 : ~sc_last.calls[i][2]

(***************************************************************************)
(* C38: when the latest store_token of a service gave no expires_in and    *)
(* the service still holds the token of that store, get_valid_token        *)
(* returns that token, at whatever time it is called and whatever was      *)
(* stored for the service before.                                          *)
(***************************************************************************)
C38_TokenWithoutExpiryStays ==
  (tk_last.op = "get" /\ tk_last.token # Absent /\ tk_last.asked = None)
  => tk_last.ret = tk_last.token

(***************************************************************************)
(* C33: a call of an allow-listed idempotent function whose first POST is  *)
(* answered with a Moodle exception payload, with a body that is not JSON  *)
(* or with an HTTP 4xx status makes no further POST and raises a           *)
(* MoodleError: with status 502 for the body that is not JSON, with the    *)
(* status of the answer for the HTTP 4xx.                                  *)
(***************************************************************************)
C33_OnlyTransientRetried ==
  (/\ MoodleDone
   /\ m_req.op = "call"
   /\ m_req.fn \in IDEMPOTENT_FUNCTIONS
   /\ \/ m_script[1].kind \in {"error", "invalid_json"}
      \/ m_script[1].kind = "http_error" /\ m_script[1].status \in 400..499)
  => /\ Len(Posts) = 1
     /\ m_result.out.raised
     /\ IsSubclass(m_result.out.type, "MoodleError")
     /\ m_script[1].kind = "invalid_json" => m_result.out.status_code = 502
     /\ m_script[1].kind = "http_error"
          => m_result.out.status_code = m_script[1].status

(***************************************************************************)
(* Failure counting of the sync methods.                                   *)
(***************************************************************************)
\* The circuit of the sync method after the latest call.
SyncCircuit == Circuit(circuit_breakers, SyncFuncName[s_platform])
SyncFailed == s_last.out # NoOutcome /\ s_last.out.raised
SyncRejected == s_last.kinds # << >> /\ s_last.kinds[Len(s_last.kinds)] = "rejected"

\* C34 as stated: every call of sync_<platform>_courses that fails for its
\* caller leaves the failure count of the circuit one higher than it found
\* it.
C34_EveryFailedCallCounts ==
  SyncFailed => SyncCircuit.failures = s_last.pre.failures + 1

\* C34, amended: a call of sync_<platform>_courses that the circuit lets
\* through and that fails runs the method once and leaves the failure count
\* one higher than it found it, and the circuit is open after it exactly
\* when that count has reached 5; a call that the open circuit rejects
\* fails and leaves the count as it was.
C34_FailedCallCountsOnce ==
  SyncFailed
  => IF SyncRejected
     THEN SyncCircuit.failures = s_last.pre.failures
     ELSE /\ s_last.calls = 1
          /\ SyncCircuit.failures = s_last.pre.failures + 1
          /\ SyncCircuit.state = "open"
               <=> SyncCircuit.failures >= SyncFailureThreshold

\* The fifth failed call in a row has opened the circuit.
C34_Witness ==
  /\ SyncFailed /\ ~SyncRejected
  /\ s_last.pre.state = "closed"
  /\ s_last.pre.failures = SyncFailureThreshold - 1
  /\ SyncCircuit.state = "open"
  /\ s_last.remote \in TransientRemotes

(***************************************************************************)
(* The circuit breaker called by several threads.                          *)
(***************************************************************************)
\* The circuit_state dicts in use: the stored one and those that the
\* threads inside wrapper hold.
DictsInUse ==
  {Stored} \cup {cc_obj[callers[t].ref] :
                   t \in {u \in Threads : callers[u].pc # "idle"}}

\* The ways the state of the stored circuit_state may change.
AllowedChanges ==
  {<< "closed", "open" >>, << "open", "half_open" >>,
   << "half_open", "closed" >>, << "half_open", "open" >>}

\* C35: when the calls of a decorated function follow one another, a
\* closed circuit has fewer failures than failure_threshold, an open or
\* half_open one has at least failure_threshold failures and a
\* last_failure_time, and the state of the stored circuit changes only from
\* closed to open, from open to half_open and from half_open to closed or
\* to open.
C35_CircuitRecordInvariant ==
  /\ [](\A r \in DictsInUse :
          /\ r.state = "closed" => r.failures < failure_threshold["f1"]
          /\ r.state \in {"open", "half_open"}
               => /\ r.failures >= failure_threshold["f1"]
                  /\ r.last_failure_time # None)
  /\ [][Stored'.state # Stored.state
          => << Stored.state, Stored'.state >> \in AllowedChanges]_vars

\* A trial call failed: the circuit is open again with one failure more
\* than the threshold.
C35_Witness ==
  /\ \A t \in Threads : callers[t].pc = "idle"
  /\ Stored.state = "open"
  /\ Stored.failures > failure_threshold["f1"]

\* C36: when the calls of two threads overlap and no call returns, the
\* stored failure count, once no call is in progress, is the number of
\* calls that raised, the first calls ever made included.
C36_NoFailureLost ==
  (\A t \in Threads : callers[t].pc = "idle")
  => Stored.failures = cc_streak

\* C37: at most one thread at a time is inside the call of func that it
\* entered with the circuit half_open.
C37_OneTrialInFlight ==
  Cardinality({t \in Threads : callers[t].pc = "calling" /\ callers[t].trial})
    <= 1

(***************************************************************************)
(* Content upload properties.                                              *)
(***************************************************************************)
\* The last request committed a content row.
Uploaded == ct_last.op = "upload_content" /\ ct_last.row # 0

\* C32: when the external upload of a content item of a linked course
\* raises an error, the request completes, and the row it committed is in
\* the table with lms_resource_id unset; a row has an lms_resource_id only
\* when the external upload was called and returned that id.
C32_LocalContentSurvives ==
  Uploaded =>
    LET rec == contents[ct_last.row]
    IN /\ rec.course_id = ct_last.course_id
       /\ (/\ ct_last.called
           /\ ct_last.up.raised
           /\ IsSubclass(ct_last.up.type, "Exception"))
            => /\ ct_last.status = "ok"
               /\ rec.lms_resource_id = None
       /\ rec.lms_resource_id # None
            => /\ ct_last.called
               /\ ~ct_last.up.raised
               /\ ct_last.up.id = rec.lms_resource_id

\* The upload to Moodle timed out after the row of a linked course was
\* committed.
C32_Witness ==
  /\ Uploaded
  /\ ct_last.course_id = CourseKey("moodle", 1)
  /\ ct_last.called
  /\ ct_last.up = Raised("Timeout")
  /\ ct_last.status = "ok"
  /\ contents[ct_last.row].lms_resource_id = None
\* C39: when force_sync of a platform and the scheduled loop sync that
\* platform at the same time against the same remote course list, no two
\* committed rows ever have the same course_id, and once both runs have
\* finished (each has committed, or has been refused by the unique
\* constraint and rolled back) every course of the list has exactly one
\* committed row.
C39_OverlappingSyncsKeepOneRow ==
  /\ \A j, k \in 1..Len(db) : db[j].course_id = db[k].course_id => j = k
  /\ (\A r \in Runs :
         \/ runs[r].pc = "done"
         \/ runs[r].pc = "failed" /\ runs[r].err = "IntegrityError")
       => \A i \in 1..Len(s_remote) :
            ~Skipped(s_platform, s_remote[i])
              => Cardinality({j \in 1..Len(db) :
                                db[j].course_id
                                  = CourseKey(s_platform, s_remote[i].id)}) = 1

\* The forced run was refused by the unique constraint after the scheduled
\* run committed both courses of the list.
C39_Witness ==
  /\ runs["scheduled"].pc = "done"
  /\ runs["forced"].pc = "failed"
  /\ runs["forced"].err = "IntegrityError"
  /\ s_remote[1].id = 1
  /\ s_remote[2].id = 2
  /\ Len(db) = 2
  /\ \A i \in 1..2 : db[i].course_id = CourseKey(s_platform, i)


====
